---- MODULE Spec2Model ----
(***************************************************************************)
(* Slack MCP server (slack-mcp-honc): workspace registry, mention engine,  *)
(* posting ledger and credential cipher.                                   *)
(*                                                                         *)
(* The handlers of src/src/index.ts are modelled as request processes      *)
(* whose steps run from one await to the next; the two tables of           *)
(* src/src/db/schema.ts are the shared state.  The cipher and              *)
(* the owner-filtered workspace listing exist only in the revision kept in *)
(* src/unnamed/part_000 (lines 630-1181) and are modelled from there.      *)
(***************************************************************************)
EXTENDS Integers, Sequences, FiniteSets, TLC

VARIABLES
  workspaces,      \* table workspaces: sequence of rows in insertion order
  postedMessages,  \* table posted_messages: sequence of rows in insertion order
  now,             \* wall clock in whole seconds (CURRENT_TIMESTAMP, new Date())
  uuids,           \* number of identifiers crypto.randomUUID() has produced
  req,             \* per request slot: the handler in flight, its locals, its result
  started,         \* number of requests started so far
  issued,          \* history: <<teamId, workspace id>> of every successful register
  cipher,          \* the cipher harness: one encrypt / tamper / decrypt experiment
  mention          \* the mention-filter harness: one filter application

vars == <<workspaces, postedMessages, now, uuids, req, started, issued, cipher, mention>>

system == <<workspaces, postedMessages, now, uuids, req, started, issued>>

NULL == "null"

Min(a, b) == IF a < b THEN a ELSE b

----------------------------------------------------------------------------
(***************************************************************************)
(* Credential cipher (src/unnamed/part_000:648-697).                       *)
(* A string is a sequence of UTF-16 code units (numbers); a byte array is  *)
(* a sequence.  AES-GCM itself is the platform's (crypto.subtle): it is    *)
(* modelled symbolically as a perfect authenticated cipher, so ciphertext  *)
(* bytes and the tag are terms that only the same key and nonce open.      *)
(***************************************************************************)

\* key.slice(0, 32).padEnd(32, '0'): the length, in code units, of the key string
KeyChars == 32

\* crypto.getRandomValues(new Uint8Array(12)); data.slice(0, 12) / data.slice(12)
IvLen == 12

\* the character '0' used by padEnd
PadChar == 48

\* U+FFFD, which TextEncoder substitutes for a lone surrogate
Replacement == 65533

IsSurrogate(u) == u >= 55296 /\ u <= 57343

\* UTF-8 bytes of one code unit (the inputs hold no surrogate pairs, so a
\* surrogate is always a lone one and is encoded as U+FFFD)
Utf8Unit(u) ==
  LET c == IF IsSurrogate(u) THEN Replacement ELSE u
  IN  IF c < 128 THEN <<c>>
      ELSE IF c < 2048 THEN <<192 + (c \div 64), 128 + (c % 64)>>
      ELSE <<224 + (c \div 4096), 128 + ((c \div 64) % 64), 128 + (c % 64)>>

\* new TextEncoder().encode(text)
RECURSIVE TextEncode(_)
TextEncode(text) ==
  IF text = <<>> THEN <<>> ELSE Utf8Unit(Head(text)) \o TextEncode(Tail(text))

\* the byte order mark U+FEFF, which TextDecoder removes from the start
ByteOrderMark == 65279

\* the UTF-16 code units of one code point
CodeUnits(c) ==
  IF c < 65536 THEN <<c>>
  ELSE <<55296 + ((c - 65536) \div 1024), 56320 + ((c - 65536) % 1024)>>

\* the UTF-8 decoder behind TextDecoder (not fatal): needed and seen count the
\* continuation bytes of the sequence in progress, cp is its code point so
\* far, lower..upper the range the next byte must lie in.  A byte outside
\* the range ends the sequence with U+FFFD and is decoded again on its own.
RECURSIVE Utf8Decode(_, _, _, _, _, _)
Utf8Decode(bytes, needed, seen, cp, lower, upper) ==
  IF bytes = <<>> THEN (IF needed # 0 THEN <<Replacement>> ELSE <<>>)
  ELSE LET b    == Head(bytes)
           rest == Tail(bytes)
       IN  IF needed = 0
             THEN IF b < 128 THEN <<b>> \o Utf8Decode(rest, 0, 0, 0, 128, 191)
                  ELSE IF b >= 194 /\ b <= 223
                    THEN Utf8Decode(rest, 1, 0, b - 192, 128, 191)
                  ELSE IF b >= 224 /\ b <= 239
                    THEN Utf8Decode(rest, 2, 0, b - 224,
                                    IF b = 224 THEN 160 ELSE 128,
                                    IF b = 237 THEN 159 ELSE 191)
                  ELSE IF b >= 240 /\ b <= 244
                    THEN Utf8Decode(rest, 3, 0, b - 240,
                                    IF b = 240 THEN 144 ELSE 128,
                                    IF b = 244 THEN 143 ELSE 191)
                  ELSE <<Replacement>> \o Utf8Decode(rest, 0, 0, 0, 128, 191)
           ELSE IF b < lower \/ b > upper
             THEN <<Replacement>> \o Utf8Decode(bytes, 0, 0, 0, 128, 191)
           ELSE IF seen + 1 = needed
             THEN CodeUnits(cp * 64 + (b - 128)) \o Utf8Decode(rest, 0, 0, 0, 128, 191)
           ELSE Utf8Decode(rest, needed, seen + 1, cp * 64 + (b - 128), 128, 191)

\* new TextDecoder().decode(bytes): the decoded code units without a leading
\* byte order mark
TextDecode(bytes) ==
  LET units == Utf8Decode(bytes, 0, 0, 0, 128, 191)
  IN  IF units # <<>> /\ units[1] = ByteOrderMark THEN Tail(units) ELSE units

\* key.slice(0, 32).padEnd(32, '0')
DeriveKeyString(key) ==
  SubSeq(key, 1, Min(Len(key), KeyChars))
    \o [i \in 1..(KeyChars - Min(Len(key), KeyChars)) |-> PadChar]

\* encoder.encode(key.slice(0, 32).padEnd(32, '0'))
KeyData(key) == TextEncode(DeriveKeyString(key))

\* crypto.subtle.importKey('raw', keyData, {name: 'AES-GCM'}, ...) accepts only
\* 128-, 192- and 256-bit keys and throws a DataError otherwise
ImportKeyOk(keyData) == Len(keyData) \in {16, 24, 32}

\* a rejected promise (a thrown error) and a fulfilled one
Throw(name) == [thrown |-> TRUE, error |-> name]

Return(v) == [value |-> v]

IsThrown(r) == "thrown" \in DOMAIN r

\* number of bytes of the AES-GCM authentication tag (128 bits, the default)
TagLen == 16

\* crypto.subtle.encrypt({name: 'AES-GCM', iv}, cryptoKey, data): ciphertext
\* bytes followed by the tag
AesGcmEncrypt(keyData, iv, data) ==
  [i \in 1..Len(data) |-> [ct |-> data[i], at |-> i, key |-> keyData, iv |-> iv]]
    \o [j \in 1..TagLen |-> [tag |-> j, key |-> keyData, iv |-> iv, of |-> data]]

\* crypto.subtle.decrypt({name: 'AES-GCM', iv}, cryptoKey, encrypted): the
\* plaintext when the tag authenticates the ciphertext under this key and
\* nonce, an OperationError otherwise
AesGcmDecrypt(keyData, iv, encrypted) ==
  IF Len(encrypted) < TagLen THEN Throw("OperationError")
  ELSE LET n    == Len(encrypted) - TagLen
           body == SubSeq(encrypted, 1, n)
           isCt(i) == /\ DOMAIN body[i] = {"ct", "at", "key", "iv"}
                      /\ body[i].at = i /\ body[i].key = keyData /\ body[i].iv = iv
           data == [i \in 1..n |-> IF isCt(i) THEN body[i].ct ELSE 0]
       IN  IF /\ \A i \in 1..n : isCt(i)
              /\ \A j \in 1..TagLen :
                   encrypted[n + j] = [tag |-> j, key |-> keyData, iv |-> iv, of |-> data]
           THEN Return(data)
           ELSE Throw("OperationError")

\* Base64 text: its characters are not spelled out; a text is the bytes it
\* decodes to, its length in characters (padding included), and the unused
\* low bits of its last data character (zero in what btoa writes).
\* btoa(String.fromCharCode(...result))
btoa(bytes) ==
  [bytes |-> bytes,
   chars |-> 4 * ((Len(bytes) + 2) \div 3),
   pad   |-> (3 - (Len(bytes) % 3)) % 3,
   slack |-> 0]

\* atob(text) is forgiving-base64 decoding: trailing '=' are accepted only on
\* a text whose length is a multiple of 4, and a text of length 1 modulo 4
\* is rejected; a rejected text throws InvalidCharacterError
atobOk(text) ==
  IF text.pad > 0 THEN text.chars % 4 = 0 ELSE text.chars % 4 # 1

atob(text) == text.bytes

\* async function encrypt(text, key), with the nonce the call drew
encrypt(text, key, iv) ==
  LET data    == TextEncode(text)
      keyData == KeyData(key)
  IN  IF ~ImportKeyOk(keyData) THEN Throw("DataError")
      ELSE Return(btoa(iv \o AesGcmEncrypt(keyData, iv, data)))

\* async function decrypt(encryptedText, key)
decrypt(encryptedText, key) ==
  IF ~atobOk(encryptedText) THEN Throw("InvalidCharacterError")
  ELSE LET data    == atob(encryptedText)
           keyData == KeyData(key)
       IN  IF ~ImportKeyOk(keyData) THEN Throw("DataError")
           ELSE LET iv        == SubSeq(data, 1, Min(IvLen, Len(data)))
                    encrypted == SubSeq(data, IvLen + 1, Len(data))
                    decrypted == AesGcmDecrypt(keyData, iv, encrypted)
                IN  IF IsThrown(decrypted) THEN decrypted
                    ELSE Return(TextDecode(decrypted.value))

----------------------------------------------------------------------------
(***************************************************************************)
(* The cipher harness: one credential is encrypted under one key with a    *)
(* drawn nonce, the stored text is possibly damaged, and it is decrypted   *)
(* under a key.                                                            *)
(***************************************************************************)

\* longest credential the harness encrypts
MaxCredLen == 2

\* code units of the credentials: 'a', e-acute (two UTF-8 bytes), a lone
\* surrogate, and the byte order mark (three UTF-8 bytes)
CredUnits == {97, 233, 55296, ByteOrderMark}

Strings(units, n) == UNION {[1..k -> units] : k \in 0..n}

Creds == Strings(CredUnits, MaxCredLen)

Repeat(u, n) == [i \in 1..n |-> u]

\* configured secrets: "", "a", "a0", "b", 32 x 'a', 32 x 'a' then 'b', e-acute
Keys ==
  { <<>>, <<97>>, <<97, 48>>, <<98>>,
    Repeat(97, KeyChars), Repeat(97, KeyChars) \o <<98>>, <<233>> }

\* nonces crypto.getRandomValues may draw
Ivs == { Repeat(0, IvLen), Repeat(7, IvLen) }

\* the first m characters of a base64 text
CutText(text, m) ==
  LET d == Min(m, text.chars - text.pad)
  IN  [bytes |-> SubSeq(text.bytes, 1, (3 * d) \div 4),
       chars |-> m,
       pad   |-> m - d,
       slack |-> 0]

\* the text with the byte at position i replaced by another value
DamageText(text, i) ==
  [text EXCEPT !.bytes = [text.bytes EXCEPT ![i] = IF i <= IvLen THEN 255 ELSE [junk |-> i]]]

CipherInit ==
  cipher \in { [phase |-> "new", text |-> c, key |-> k, sealed |-> Throw("none"),
                stored |-> btoa(<<>>), damage |-> "none", key2 |-> k,
                out |-> Throw("none")] : c \in Creds, k \in Keys }

\* encrypt(text, key) is called
CipherEncrypt ==
  /\ UNCHANGED <<system, mention>>
  /\ cipher.phase = "new"
  /\ \E iv \in Ivs :
       LET r == encrypt(cipher.text, cipher.key, iv)
       IN  cipher' = [cipher EXCEPT
                        !.phase  = IF IsThrown(r) THEN "failed" ELSE "sealed",
                        !.sealed = r,
                        !.stored = IF IsThrown(r) THEN @ ELSE r.value]

\* the stored text loses its tail
CipherTruncate ==
  /\ UNCHANGED <<system, mention>>
  /\ cipher.phase = "sealed" /\ cipher.damage = "none"
  /\ \E m \in 0..(cipher.stored.chars - 1) :
       cipher' = [cipher EXCEPT !.stored = CutText(@, m), !.damage = "truncated"]

\* one byte of the stored text changes
CipherCorrupt ==
  /\ UNCHANGED <<system, mention>>
  /\ cipher.phase = "sealed" /\ cipher.damage = "none"
  /\ \E i \in 1..Len(cipher.stored.bytes) :
       cipher' = [cipher EXCEPT !.stored = DamageText(@, i), !.damage = "corrupted"]

\* the unused low bits of the last data character change (a different text
\* that decodes to the same bytes)
CipherRespell ==
  /\ UNCHANGED <<system, mention>>
  /\ cipher.phase = "sealed" /\ cipher.damage = "none"
  /\ cipher.stored.pad > 0
  /\ cipher' = [cipher EXCEPT !.stored.slack = 1, !.damage = "respelled"]

\* decrypt(stored, key2) is called
CipherDecrypt ==
  /\ UNCHANGED <<system, mention>>
  /\ cipher.phase = "sealed"
  /\ \E k2 \in Keys :
       cipher' = [cipher EXCEPT !.phase = "opened", !.key2 = k2,
                                !.out = decrypt(cipher.stored, k2)]

----------------------------------------------------------------------------
(***************************************************************************)
(* The store (src/src/db/schema.ts) and the external platform.             *)
(***************************************************************************)

\* request slots: the requests that may be in flight together
Procs == {"p1", "p2"}

\* number of requests the model starts
MaxRequests == 2

\* seconds the clock runs before it stops
MaxTime == 2

\* Date.now() at the start, in whole seconds: one day and five seconds
Epoch == 86405

\* A value of a created_at or updated_at column.  The column default
\* (CURRENT_TIMESTAMP) stores the text 'YYYY-MM-DD HH:MM:SS' of second t; a Date
\* written through the column is stored as the integer of its seconds.
CurrentTimestamp(t) == [type |-> "text", at |-> t]

mapToDriverValue(t) == [type |-> "integer", at |-> t]

\* a Date whose time value is NaN
InvalidDate == [invalid |-> TRUE]

\* the Date a timestamp column is read as: new Date(value * 1000), which for a
\* text value is an Invalid Date
mapFromDriverValue(v) == IF v.type = "integer" THEN [time |-> v.at] ELSE InvalidDate

\* JSON.stringify of a Date: its time, and null for an Invalid Date
DateJson(d) == IF d = InvalidDate THEN NULL ELSE d.time

\* the order of two values of a timestamp column in ORDER BY ... DESC: text
\* sorts above every number, text by its characters, numbers by value
NotOlder(a, b) == IF a.type = b.type THEN a.at >= b.at ELSE a.type = "text"

\* crypto.randomUUID(): the n-th identifier drawn
UUID(n) == <<"w1", "w2", "w3", "w4", "w5", "w6">>[n]

\* Slack user identifiers, as sequences of characters
U1 == <<"U", "1">>
U2 == <<"U", "2">>
UBOT == <<"U", "B">>

UserIds == {U1, U2}

Nil == [nil |-> TRUE]

\* a request slot with no request
Idle == [op |-> "none", pc |-> "idle", args |-> Nil, local |-> Nil,
         calls |-> <<>>, result |-> Nil]

\* a workspace row that an administrator has soft-deleted (is_active = 0)
SeedRow ==
  [id |-> "w0", teamName |-> "Beta", teamId |-> "T2",
   workspaceUrl |-> "https://beta.slack.com/", botToken |-> "xoxb-B0",
   userId |-> U2, botId |-> UBOT, description |-> NULL,
   createdAt |-> CurrentTimestamp(0), updatedAt |-> CurrentTimestamp(0), isActive |-> FALSE]

\* workspace rows of earlier registrations, one for each owner
GammaRow ==
  [id |-> "w7", teamName |-> "Gamma", teamId |-> "T3",
   workspaceUrl |-> "https://gamma.slack.com/", botToken |-> "xoxb-G0",
   userId |-> U1, botId |-> UBOT, description |-> "lab",
   createdAt |-> CurrentTimestamp(0), updatedAt |-> CurrentTimestamp(0), isActive |-> TRUE]

DeltaRow ==
  [id |-> "w8", teamName |-> "Delta", teamId |-> "T4",
   workspaceUrl |-> "https://delta.slack.com/", botToken |-> "xoxb-D0",
   userId |-> U2, botId |-> UBOT, description |-> NULL,
   createdAt |-> CurrentTimestamp(0), updatedAt |-> CurrentTimestamp(0), isActive |-> TRUE]

\* ledger rows of earlier posts: three to the Delta workspace, and one to the Beta
\* workspace from before it was deactivated
SeedPosted ==
  << [id |-> "m1", workspaceId |-> "w8", channelId |-> "C1", channelName |-> "general",
      messageText |-> "hello", messageTs |-> <<"5", ".", "1">>, slackMessageId |-> "m0",
      userId |-> U2, createdAt |-> CurrentTimestamp(0)],
     [id |-> "m2", workspaceId |-> "w8", channelId |-> "C1", channelName |-> "general",
      messageText |-> "again", messageTs |-> <<"6", ".", "1">>, slackMessageId |-> NULL,
      userId |-> U2, createdAt |-> CurrentTimestamp(Epoch)],
     [id |-> "m3", workspaceId |-> "w8", channelId |-> "C2", channelName |-> "random",
      messageText |-> "aside", messageTs |-> <<"5", ".", "5">>, slackMessageId |-> NULL,
      userId |-> U2, createdAt |-> CurrentTimestamp(1)],
     [id |-> "m4", workspaceId |-> "w0", channelId |-> "C1", channelName |-> "general",
      messageText |-> "early", messageTs |-> <<"4", ".", "1">>, slackMessageId |-> NULL,
      userId |-> U2, createdAt |-> CurrentTimestamp(0)] >>

\* the stores a deployment starts from: D1 keeps its rows across restarts
SeedStores ==
  { [workspaces |-> <<>>, postedMessages |-> <<>>],
    [workspaces |-> <<SeedRow>>, postedMessages |-> <<>>],
    [workspaces |-> <<SeedRow, GammaRow, DeltaRow>>, postedMessages |-> SeedPosted] }

Init ==
  /\ \E store \in SeedStores :
       /\ workspaces = store.workspaces
       /\ postedMessages = store.postedMessages
  /\ now = Epoch
  /\ uuids = 0
  /\ req = [p \in Procs |-> Idle]
  /\ started = 0
  /\ issued = {}
  /\ cipher = [phase |-> "off"]
  /\ mention = [phase |-> "off"]

CipherNext ==
  \/ CipherEncrypt
  \/ CipherTruncate
  \/ CipherCorrupt
  \/ CipherRespell
  \/ CipherDecrypt

CipherSpecInit ==
  /\ workspaces = <<>> /\ postedMessages = <<>> /\ now = Epoch /\ uuids = 0
  /\ req = [p \in Procs |-> Idle] /\ started = 0 /\ issued = {}
  /\ mention = [phase |-> "off"]
  /\ CipherInit

CipherSpec == CipherSpecInit /\ [][CipherNext]_vars

----------------------------------------------------------------------------
(***************************************************************************)
(* Requests.  A handler is an async function; other requests run while it  *)
(* awaits.  A step of the model is one awaited operation (a statement of   *)
(* the store, a call of the platform, the read of a request body) with the *)
(* synchronous code that follows it up to the next await or the return.    *)
(* The response of POST /api/post-message is a step of its own, since its  *)
(* posted_at is read from the clock after the insert has stamped the row.  *)
(***************************************************************************)

\* slot p is free for a new request
Start(p) ==
  /\ req[p].pc \in {"idle", "done"}
  /\ started < MaxRequests
  /\ started' = started + 1

\* a request that has run up to its next store access
Await(op, args, pc, local, calls) ==
  [op |-> op, pc |-> pc, args |-> args, local |-> local, calls |-> calls, result |-> Nil]

\* a request that has returned
Done(op, args, calls, result) ==
  [op |-> op, pc |-> "done", args |-> args, local |-> Nil, calls |-> calls,
   result |-> result]

\* a tool result: { content: [{type: "text", text}], isError }
ToolResult(isError, text, data) == [isError |-> isError, text |-> text, data |-> data]

\* the catch block of a tool: `${prefix}: ${error.message}`, isError: true
Caught(prefix, message) == ToolResult(TRUE, prefix, [message |-> message])

\* the clock advances
Tick ==
  /\ now < Epoch + MaxTime - 1
  /\ now' = now + 1
  /\ UNCHANGED <<workspaces, postedMessages, uuids, req, started, issued, cipher, mention>>

----------------------------------------------------------------------------
(***************************************************************************)
(* Workspace registry: configure_workspace (src/src/index.ts:27-111).      *)
(***************************************************************************)

BotTokens == {"xoxb-A1", "xoxb-A2", "xoxb-B1", "xoxb-D1", "xoxb-part", "xoxb-bad"}

Descriptions == {NULL, "ops"}

\* what Slack's auth.test answers for a token: a response, or a thrown error
AuthTest(bot_token) ==
  CASE bot_token = "xoxb-A1" ->
         {[ok |-> TRUE, team |-> "Acme", team_id |-> "T1",
           url |-> "https://acme.slack.com/", user_id |-> UBOT]}
    [] bot_token = "xoxb-A2" ->
         {[ok |-> TRUE, team |-> "Acme Inc", team_id |-> "T1",
           url |-> "https://acme.slack.com/", user_id |-> UBOT]}
    [] bot_token = "xoxb-B1" ->
         {[ok |-> TRUE, team |-> "Beta", team_id |-> "T2",
           url |-> "https://beta.slack.com/", user_id |-> UBOT]}
    [] bot_token = "xoxb-D1" ->
         {[ok |-> TRUE, team |-> "Delta", team_id |-> "T4",
           url |-> "https://delta.slack.com/", user_id |-> UBOT]}
    [] bot_token = "xoxb-part" ->
         {[ok |-> TRUE, team |-> "Acme", team_id |-> "T1",
           url |-> "", user_id |-> UBOT],
          [ok |-> TRUE, team |-> "", team_id |-> "T1",
           url |-> "https://acme.slack.com/", user_id |-> UBOT],
          [ok |-> TRUE, team |-> "Acme", team_id |-> "",
           url |-> "https://acme.slack.com/", user_id |-> UBOT],
          [ok |-> TRUE, team |-> "Acme", team_id |-> "T1",
           url |-> "https://acme.slack.com/", user_id |-> <<>>]}
    [] OTHER ->
         {[ok |-> FALSE, team |-> "", team_id |-> "", url |-> "", user_id |-> <<>>],
          Throw("invalid_auth")}

\* variant: the test of the response without the check of the URL
AuthRejectedNoUrl(authTest) ==
  \/ ~authTest.ok
  \/ authTest.team = ""
  \/ authTest.team_id = ""
  \/ authTest.user_id = <<>>

\* !authTest.ok || !authTest.team || !authTest.team_id || !authTest.url || !authTest.user_id
AuthRejected(authTest) ==
  \/ ~authTest.ok
  \/ authTest.team = ""
  \/ authTest.team_id = ""
  \/ authTest.url = ""
  \/ authTest.user_id = <<>>

\* description || null
OrNull(description) == IF description \in {NULL, ""} THEN NULL ELSE description

\* description || 'None'
OrNone(description) == IF description \in {NULL, ""} THEN "None" ELSE description

\* botToken: bot_token, the value written to the bot_token column
StoredToken(bot_token) == bot_token

\* variant: the update branch also draws a new identifier for the row
UpdatedRowFresh(row, authTest, bot_token, user_id, description, updatedAt) ==
  [row EXCEPT !.id = UUID(uuids + 1),
              !.teamName = authTest.team,
              !.workspaceUrl = authTest.url,
              !.botToken = bot_token,
              !.userId = user_id,
              !.botId = authTest.user_id,
              !.description = OrNull(description),
              !.updatedAt = mapToDriverValue(updatedAt),
              !.isActive = TRUE]

\* variant: the update branch leaves is_active as it finds it
UpdatedRowKeepActive(row, authTest, bot_token, user_id, description, updatedAt) ==
  [row EXCEPT !.teamName = authTest.team,
              !.workspaceUrl = authTest.url,
              !.botToken = StoredToken(bot_token),
              !.userId = user_id,
              !.botId = authTest.user_id,
              !.description = OrNull(description),
              !.updatedAt = mapToDriverValue(updatedAt)]

\* variant: the update branch also resets created_at
UpdatedRowRecreated(row, authTest, bot_token, user_id, description, updatedAt) ==
  [row EXCEPT !.teamName = authTest.team,
              !.workspaceUrl = authTest.url,
              !.botToken = StoredToken(bot_token),
              !.userId = user_id,
              !.botId = authTest.user_id,
              !.description = OrNull(description),
              !.createdAt = mapToDriverValue(updatedAt),
              !.updatedAt = mapToDriverValue(updatedAt),
              !.isActive = TRUE]

\* variant: the update branch flips is_active
UpdatedRowToggled(row, authTest, bot_token, user_id, description, updatedAt) ==
  [row EXCEPT !.teamName = authTest.team,
              !.workspaceUrl = authTest.url,
              !.botToken = StoredToken(bot_token),
              !.userId = user_id,
              !.botId = authTest.user_id,
              !.description = OrNull(description),
              !.updatedAt = mapToDriverValue(updatedAt),
              !.isActive = ~row.isActive]

\* .set({...}) of the update branch
UpdatedRow(row, authTest, bot_token, user_id, description, updatedAt) ==
  [row EXCEPT !.teamName = authTest.team,
              !.workspaceUrl = authTest.url,
              !.botToken = StoredToken(bot_token),
              !.userId = user_id,
              !.botId = authTest.user_id,
              !.description = OrNull(description),
              !.updatedAt = mapToDriverValue(updatedAt),
              !.isActive = TRUE]

\* .values({...}) of the insert branch, with the column defaults of the schema
NewRow(authTest, bot_token, user_id, description) ==
  [id |-> UUID(uuids + 1),
   teamName |-> authTest.team,
   teamId |-> authTest.team_id,
   workspaceUrl |-> authTest.url,
   botToken |-> StoredToken(bot_token),
   userId |-> user_id,
   botId |-> authTest.user_id,
   description |-> OrNull(description),
   createdAt |-> CurrentTimestamp(now),
   updatedAt |-> CurrentTimestamp(now),
   isActive |-> TRUE]

\* variant: the team_id column without its UNIQUE constraint
UniqueTeamIdOff(table, row) == TRUE

\* team_id is UNIQUE: an insert of a second row for a team fails
UniqueTeamId(table, row) == \A i \in DOMAIN table : table[i].teamId # row.teamId

\* the fields of a row that the success text of configure_workspace shows
WorkspaceText(row) ==
  [id |-> row.id, teamName |-> row.teamName, workspaceUrl |-> row.workspaceUrl,
   description |-> OrNone(row.description)]

\* the rows for a team: where(eq(schema.workspaces.teamId, team_id))
TeamRows(team_id) ==
  LET found(row) == row.teamId = team_id IN {i \in DOMAIN workspaces : found(workspaces[i])}

\* the handler up to its first access to the store: await slack.auth.test()
\* and the test of the response
configure_workspace_auth(p) ==
  \E bot_token \in BotTokens, user_id \in UserIds, description \in Descriptions :
    \E authTest \in AuthTest(bot_token) :
      LET op   == "configure_workspace"
          args == [bot_token |-> bot_token, user_id |-> user_id,
                   description |-> description]
          calls == <<[api |-> "auth.test", token |-> bot_token, response |-> authTest]>>
      IN  /\ Start(p)
          /\ req' = [req EXCEPT ![p] =
                IF IsThrown(authTest)
                  THEN Done(op, args, calls,
                            Caught("Error configuring workspace", authTest.error))
                ELSE IF AuthRejected(authTest)
                  THEN Done(op, args, calls, ToolResult(TRUE,
                            "Invalid bot token or missing workspace information", Nil))
                ELSE Await(op, args, "check", [authTest |-> authTest], calls)]
          /\ UNCHANGED <<workspaces, postedMessages, now, uuids, issued, cipher, mention>>

\* the presence check: await db.select().from(workspaces).where(eq(teamId, ...))
\* .limit(1), and, when a row was found, the new Date() of the update's
\* .set({...}), which is built as soon as the select has returned
configure_workspace_check(p) ==
  /\ req[p].op = "configure_workspace" /\ req[p].pc = "check"
  /\ LET r        == req[p]
         authTest == r.local.authTest
         existing == TeamRows(authTest.team_id) # {}
     IN  req' = [req EXCEPT ![p] =
                   Await(r.op, r.args, "write",
                         IF existing
                           THEN [authTest |-> authTest, existing |-> TRUE,
                                 updatedAt |-> now]
                           ELSE [authTest |-> authTest, existing |-> FALSE],
                         r.calls)]
  /\ UNCHANGED <<workspaces, postedMessages, now, uuids, started, issued, cipher, mention>>

\* the rest of the handler: await db.update(...).set(...).where(...).returning(),
\* or await db.insert(...).values(...).returning(); then the result
configure_workspace_write(p) ==
  /\ req[p].op = "configure_workspace" /\ req[p].pc = "write"
  /\ LET r        == req[p]
         a        == r.args
         authTest == r.local.authTest
         hit      == TeamRows(authTest.team_id)
         new      == NewRow(authTest, a.bot_token, a.user_id, a.description)
         return(result) == req' = [req EXCEPT ![p] = Done(r.op, a, r.calls, result)]
     IN  IF r.local.existing
           THEN /\ workspaces' =
                     [i \in DOMAIN workspaces |->
                        IF i \in hit
                          THEN UpdatedRow(workspaces[i], authTest, a.bot_token,
                                          a.user_id, a.description, r.local.updatedAt)
                          ELSE workspaces[i]]
                /\ UNCHANGED uuids
                /\ IF hit = {}
                     THEN /\ return(Caught("Error configuring workspace",
                                           "Cannot read properties of undefined"))
                          /\ UNCHANGED issued
                     ELSE LET updatedWorkspace == workspaces'[CHOOSE i \in hit : TRUE]
                          IN  /\ return(ToolResult(FALSE, "Workspace updated successfully!",
                                                   WorkspaceText(updatedWorkspace)))
                              /\ issued' = issued \cup
                                             {<<updatedWorkspace.teamId, updatedWorkspace.id>>}
           ELSE IF UniqueTeamId(workspaces, new)
             THEN /\ workspaces' = Append(workspaces, new)
                  /\ uuids' = uuids + 1
                  /\ return(ToolResult(FALSE, "Workspace configured successfully!",
                                       WorkspaceText(new)))
                  /\ issued' = issued \cup {<<new.teamId, new.id>>}
             ELSE /\ return(Caught("Error configuring workspace",
                                   "UNIQUE constraint failed: workspaces.team_id"))
                  /\ UNCHANGED <<workspaces, uuids, issued>>
  /\ UNCHANGED <<postedMessages, now, started, cipher, mention>>

----------------------------------------------------------------------------
(***************************************************************************)
(* Workspace listings.                                                     *)
(***************************************************************************)

\* the rows of a table at the given positions, in table order
RECURSIVE Pick(_, _, _)
Pick(table, positions, i) ==
  IF i > Len(table) THEN <<>>
  ELSE (IF i \in positions THEN <<table[i]>> ELSE <<>>) \o Pick(table, positions, i + 1)

\* select({teamName, description}).from(workspaces).where(eq(isActive, true))
ActiveWorkspaces ==
  LET active(row) == row.isActive IN Pick(workspaces, {i \in DOMAIN workspaces : active(workspaces[i])}, 1)

\* the line of one workspace: `* ${ws.teamName}${ws.description ? ` - ${ws.description}` : ''}`
WorkspaceLine(ws) ==
  [teamName |-> ws.teamName,
   description |-> IF ws.description \in {NULL, ""} THEN "" ELSE ws.description]

Ids(rows) == [i \in DOMAIN rows |-> rows[i].id]

\* list_workspaces (src/src/index.ts:114-156)
list_workspaces(p) ==
  /\ Start(p)
  /\ LET rows == ActiveWorkspaces
         done(result) == [Done("list_workspaces", Nil, <<>>, result)
                            EXCEPT !.local = [rows |-> Ids(rows)]]
     IN  req' = [req EXCEPT ![p] =
           IF rows = <<>>
             THEN done(ToolResult(FALSE, "No workspaces configured yet.", Nil))
             ELSE done(ToolResult(FALSE, "Configured Workspaces:",
                         [list |-> [i \in DOMAIN rows |-> WorkspaceLine(rows[i])]]))]
  /\ UNCHANGED <<workspaces, postedMessages, now, uuids, issued, cipher, mention>>

\* variant: the listing without the owner condition
WorkspacesOfAll(user_context) ==
  LET active(row) == row.isActive IN Pick(workspaces, {i \in DOMAIN workspaces : active(workspaces[i])}, 1)

\* select().from(workspaces).where(and(eq(userId, user_context), eq(isActive, true)))
WorkspacesOf(user_context) ==
  LET mine(row) == row.userId = user_context /\ row.isActive
  IN  Pick(workspaces, {i \in DOMAIN workspaces : mine(workspaces[i])}, 1)

\* variant: the listing returns the selected rows as they are
WorkspaceEntryRow(ws) == ws

\* workspaces.map(ws => ({id, name, url, description, created_at}))
WorkspaceEntry(ws) ==
  [id |-> ws.id, name |-> ws.teamName, url |-> ws.workspaceUrl,
   description |-> ws.description,
   created_at |-> DateJson(mapFromDriverValue(ws.createdAt))]

\* list_workspaces with user_context (src/unnamed/part_000:791-829)
list_workspaces_of(p) ==
  \E user_context \in UserIds :
    /\ Start(p)
    /\ LET rows == WorkspacesOf(user_context)
       IN  req' = [req EXCEPT ![p] =
             [Done("list_workspaces_of", [user_context |-> user_context], <<>>,
                   ToolResult(FALSE, "Found workspace(s):",
                      [list |-> [i \in DOMAIN rows |-> WorkspaceEntry(rows[i])]]))
                EXCEPT !.local = [rows |-> Ids(rows)]]]
    /\ UNCHANGED <<workspaces, postedMessages, now, uuids, issued, cipher, mention>>

----------------------------------------------------------------------------
(***************************************************************************)
(* Mention engine: get_mentions (src/src/index.ts:158-262).  A text is a   *)
(* sequence of characters.                                                 *)
(***************************************************************************)

\* the case folding of the regular expression flag 'i', on the letters A-Z
Fold(c) ==
  LET upper == <<"A","B","C","D","E","F","G","H","I","J","K","L","M",
                 "N","O","P","Q","R","S","T","U","V","W","X","Y","Z">>
      lower == <<"a","b","c","d","e","f","g","h","i","j","k","l","m",
                 "n","o","p","q","r","s","t","u","v","w","x","y","z">>
  IN  IF \E k \in 1..26 : upper[k] = c
        THEN lower[CHOOSE k \in 1..26 : upper[k] = c]
        ELSE c

\* variant: the pattern without its 'i' flag
TestExact(literal, text) ==
  \E i \in 1..(Len(text) - Len(literal) + 1) :
    \A j \in 1..Len(literal) : text[i + j - 1] = literal[j]

\* new RegExp(literal, 'i').test(text), for a literal without metacharacters
TestIgnoreCase(literal, text) ==
  \E i \in 1..(Len(text) - Len(literal) + 1) :
    \A j \in 1..Len(literal) : Fold(text[i + j - 1]) = Fold(literal[j])

\* `<@${workspace.userId}>`
MentionToken(userId) == <<"<", "@">> \o userId \o <<">">>

\* /<!channel>/i
ChannelToken == <<"<", "!", "c", "h", "a", "n", "n", "e", "l", ">">>

\* msg.text || '': a message without text carries the empty text
TextOf(msg) == msg.text

\* the filter callback: mentionPattern.test(text) || channelNotificationPattern.test(text)
IsMention(msg, userId) ==
  \/ TestIgnoreCase(MentionToken(userId), TextOf(msg))
  \/ TestIgnoreCase(ChannelToken, TextOf(msg))

\* msg.ts?.replace('.', ''): the first '.' is removed
RECURSIVE StripDot(_)
StripDot(ts) ==
  IF ts = <<>> THEN <<>>
  ELSE IF Head(ts) = "." THEN Tail(ts)
  ELSE <<Head(ts)>> \o StripDot(Tail(ts))

\* `${workspace.workspaceUrl}archives/${channel_id}/p${msg.ts?.replace('.', '')}`
Permalink(workspaceUrl, channel_id, ts) ==
  [base |-> workspaceUrl, archives |-> channel_id, p |-> StripDot(ts)]

\* what a template literal prints for undefined
Undefined == <<"u", "n", "d", "e", "f", "i", "n", "e", "d">>

\* the message has a ts field
HasTs(msg) == "ts" \in DOMAIN msg

\* the map callback: {text, user, timestamp, permalink}; a falsy ts or user is
\* printed as 'Unknown', and msg.ts?.replace(...) of a message without ts is
\* undefined
MentionOf(msg, workspace, channel_id) ==
  [text |-> TextOf(msg),
   user |-> IF msg.user \in {NULL, ""} THEN "Unknown" ELSE msg.user,
   timestamp |-> IF ~HasTs(msg) \/ msg.ts = <<>> THEN "Unknown" ELSE [isoOf |-> msg.ts],
   permalink |-> IF HasTs(msg)
                   THEN Permalink(workspace.workspaceUrl, channel_id, msg.ts)
                   ELSE [base |-> workspace.workspaceUrl, archives |-> channel_id,
                         p |-> Undefined]]

\* variant: the stream is cut to limit messages before it is filtered
MentionsSliceFirst(messages, workspace, channel_id, limit) ==
  LET keep(msg) == IsMention(msg, workspace.userId)
      cut  == SubSeq(messages, 1, Min(limit, Len(messages)))
      kept == SelectSeq(cut, keep)
  IN  [i \in DOMAIN kept |-> MentionOf(kept[i], workspace, channel_id)]

\* variant: the mention pattern is built from the bot's identifier
MentionsOfBot(messages, workspace, channel_id, limit) ==
  LET keep(msg) == IsMention(msg, workspace.botId)
      kept == SelectSeq(messages, keep)
      cut  == SubSeq(kept, 1, Min(limit, Len(kept)))
  IN  [i \in DOMAIN cut |-> MentionOf(cut[i], workspace, channel_id)]

\* history.messages.filter(...).slice(0, limit).map(...)
Mentions(messages, workspace, channel_id, limit) ==
  LET keep(msg) == IsMention(msg, workspace.userId)
      kept == SelectSeq(messages, keep)
      cut  == SubSeq(kept, 1, Min(limit, Len(kept)))
  IN  [i \in DOMAIN cut |-> MentionOf(cut[i], workspace, channel_id)]

\* variant: the lookup without the isActive condition
AnyWorkspace(workspace_id) ==
  LET found(row) == row.id = workspace_id
  IN  Pick(workspaces, {i \in DOMAIN workspaces : found(workspaces[i])}, 1)

\* select().from(workspaces).where(and(eq(id, workspace_id), eq(isActive, true))).limit(1)
ActiveWorkspace(workspace_id) ==
  LET found(row) == row.id = workspace_id /\ row.isActive
  IN  Pick(workspaces, {i \in DOMAIN workspaces : found(workspaces[i])}, 1)

Msg(text, user, ts) == [text |-> text, user |-> user, ts |-> ts]

Hello     == <<"h", "e", "l", "l", "o">>
Ping      == <<"<", "@", "U", "1", ">", " ", "p", "i", "n", "g">>
Standup   == <<"<", "!", "c", "h", "a", "n", "n", "e", "l", ">", " ", "s", "t", "a", "n", "d", "u", "p">>
Lunch     == <<"<", "!", "h", "e", "r", "e", ">", " ", "l", "u", "n", "c", "h">>
LowerPing == <<"h", "i", " ", "<", "@", "u", "1", ">">>
Shout     == <<"<", "!", "C", "H", "A", "N", "N", "E", "L", ">">>
Other     == <<"<", "@", "U", "2", ">", " ", "y", "o">>
Near      == <<"<", "@", "U", "1", "2", ">">>
BotPing   == <<"<", "@", "U", "B", ">", " ", "g", "o">>

\* the stream of the specification's example, and one with a here-style token
ExampleStream ==
  << Msg(Hello, "U7", <<"9", ".", "1">>),
     Msg(Ping, "U7", <<"8", ".", "1">>),
     Msg(Standup, NULL, <<"7", ".", "1">>) >>

HereStream ==
  << Msg(Lunch, "U7", <<"8", ".", "5">>), Msg(Other, "U8", <<"7", ".", "5">>),
     Msg(BotPing, "U7", <<"7", ".", "2">>) >>

\* a channel notification posted long before the window of any request
Stale == Msg(Shout, "U7", <<"3", ".", "1">>)

\* the value of a decimal digit
Digit(c) == CHOOSE d \in 0..9 : <<"0", "1", "2", "3", "4", "5", "6", "7", "8", "9">>[d + 1] = c

\* the whole seconds of a Slack timestamp "seconds.fraction"
RECURSIVE SecondsFrom(_, _)
SecondsFrom(ts, acc) ==
  IF ts = <<>> \/ Head(ts) = "." THEN acc
  ELSE SecondsFrom(Tail(ts), 10 * acc + Digit(Head(ts)))

Seconds(ts) == SecondsFrom(ts, 0)

\* the timestamp has a fraction above zero
RECURSIVE HasFraction(_, _)
HasFraction(ts, dotted) ==
  IF ts = <<>> THEN FALSE
  ELSE IF Head(ts) = "." THEN HasFraction(Tail(ts), TRUE)
  ELSE (dotted /\ Head(ts) # "0") \/ HasFraction(Tail(ts), dotted)

\* the platform's reading of the oldest parameter: only messages after it
Since(messages, oldest) ==
  LET after(msg) == \/ Seconds(msg.ts) > oldest
                    \/ Seconds(msg.ts) = oldest /\ HasFraction(msg.ts, FALSE)
  IN  SelectSeq(messages, after)

\* the messages a channel holds on the platform, newest first, as the first
\* page the platform serves and the pages behind its continuation cursor
ChannelHistories ==
  { [first |-> <<>>, rest |-> <<>>],
    [first |-> ExampleStream \o <<Stale>>, rest |-> <<>>],
    [first |-> HereStream, rest |-> <<>>],
    [first |-> <<ExampleStream[1]>>, rest |-> <<ExampleStream[3], Stale>>] }

\* what conversations.history answers to a request without cursor: a
\* response, or a thrown error
HistoryResponses(oldest) ==
  { Throw("channel_not_found"),
    [ok |-> FALSE, messages |-> <<>>, next_cursor |-> ""],
    [ok |-> TRUE, next_cursor |-> ""] }
  \cup { [ok |-> TRUE, messages |-> Since(h.first, oldest),
          next_cursor |-> IF Since(h.rest, oldest) = <<>> THEN "" ELSE "c2"] :
         h \in ChannelHistories }

\* identifiers a caller may pass: the seed row's, issued ones, one never issued
WorkspaceIds == {"w0", "w1", "w8", "w9"}

ChannelIds == {"C1"}

\* values a caller may pass for days_back and limit
DaysBack == {0, 1, 366}

Limits == {0, 1, 2, 101}

\* milliseconds of Date.now() within the current second
Millis == {0, 999}

NotFound == ToolResult(TRUE, "Workspace not found or inactive", Nil)

\* the rejection of a call whose arguments fail the tool's schema: the
\* handler is not run
InvalidParams == [rpcError |-> "InvalidParams"]

\* variant: the schema of limit without its maximum
ValidMentionArgsNoMax(days_back, limit) ==
  /\ days_back >= 1 /\ days_back <= 365
  /\ limit >= 1

\* days_back: z.number().min(1).max(365), limit: z.number().min(1).max(100)
ValidMentionArgs(days_back, limit) ==
  /\ days_back >= 1 /\ days_back <= 365
  /\ limit >= 1 /\ limit <= 100

\* variant: the day is not converted to milliseconds
OldestTimestampSeconds(dateNow, days_back) ==
  (dateNow - (days_back * 24 * 60 * 60)) \div 1000

\* oldestTimestamp = Math.floor((Date.now() - (days_back * 24 * 60 * 60 * 1000)) / 1000)
OldestTimestamp(dateNow, days_back) ==
  (dateNow - (days_back * 24 * 60 * 60 * 1000)) \div 1000

\* variant: an empty list of messages is taken for a failed retrieval
MentionsResultStrict(history, workspace, a) ==
  IF IsThrown(history)
    THEN Caught("Error getting mentions", history.error)
  ELSE IF ~history.ok \/ "messages" \notin DOMAIN history
    THEN ToolResult(TRUE, "Failed to retrieve channel history or no messages found", Nil)
  ELSE LET mentions == Mentions(history.messages, workspace, a.channel_id, a.limit)
       IN  IF mentions = <<>>
             THEN ToolResult(TRUE, "Failed to retrieve channel history or no messages found",
                             Nil)
             ELSE ToolResult(FALSE, "Found mention(s):", [list |-> mentions])

\* the result of get_mentions once the history call has answered
MentionsResult(history, workspace, a) ==
  IF IsThrown(history)
    THEN Caught("Error getting mentions", history.error)
  ELSE IF ~history.ok \/ "messages" \notin DOMAIN history
    THEN ToolResult(TRUE, "Failed to retrieve channel history or no messages found", Nil)
  ELSE LET mentions == Mentions(history.messages, workspace, a.channel_id, a.limit)
       IN  IF mentions = <<>>
             THEN ToolResult(FALSE, "No mentions or channel notifications found", Nil)
             ELSE ToolResult(FALSE, "Found mention(s):", [list |-> mentions])

\* get_mentions up to the history call: the check of the arguments against the
\* schema, await db.select()...limit(1), and the oldestTimestamp the handler
\* computes from Date.now() before it calls the platform
get_mentions_select(p) ==
  \E workspace_id \in WorkspaceIds, channel_id \in ChannelIds,
     days_back \in DaysBack, limit \in Limits :
    LET op    == "get_mentions"
        args  == [workspace_id |-> workspace_id, channel_id |-> channel_id,
                  days_back |-> days_back, limit |-> limit]
        found == ActiveWorkspace(workspace_id)
    IN  /\ Start(p)
        /\ IF ~ValidMentionArgs(days_back, limit)
             THEN req' = [req EXCEPT ![p] = Done(op, args, <<>>, InvalidParams)]
           ELSE IF found = <<>>
             THEN req' = [req EXCEPT ![p] = Done(op, args, <<>>, NotFound)]
           ELSE \E ms \in Millis :
                  req' = [req EXCEPT ![p] =
                            Await(op, args, "history",
                                  [workspace |-> found[1],
                                   oldestTimestamp |->
                                     OldestTimestamp(now * 1000 + ms, days_back)],
                                  <<>>)]
        /\ UNCHANGED <<workspaces, postedMessages, now, uuids, issued, cipher, mention>>

\* the rest of get_mentions: await slack.conversations.history(...) with the
\* row the handler holds, the filter and the result
get_mentions_history(p) ==
  /\ req[p].op = "get_mentions" /\ req[p].pc = "history"
  /\ LET r == req[p]
         l == r.local
     IN  \E history \in HistoryResponses(l.oldestTimestamp) :
           LET call == [api |-> "conversations.history",
                        token |-> l.workspace.botToken,
                        channel |-> r.args.channel_id,
                        oldest |-> l.oldestTimestamp,
                        cursor |-> "", response |-> history]
           IN  req' = [req EXCEPT ![p] =
                         Done(r.op, r.args, <<call>>,
                              MentionsResult(history, l.workspace, r.args))]
  /\ UNCHANGED <<workspaces, postedMessages, now, uuids, started, issued, cipher, mention>>

----------------------------------------------------------------------------
(***************************************************************************)
(* Channel listing: list_user_channels (src/src/index.ts:264-359).         *)
(***************************************************************************)

Channel(id, name, is_member) == [id |-> id, name |-> name, is_member |-> is_member]

\* what conversations.list answers: a response, or a thrown error
ListResponses ==
  { Throw("ratelimited"),
    [ok |-> FALSE, channels |-> <<>>],
    [ok |-> TRUE, channels |-> <<Channel("C1", "general", TRUE)>>] }

\* channels.push(...response.channels.map(ch => ({id, name, type, is_member})))
Pushed(channels, response, type) ==
  IF response.ok
    THEN channels \o [i \in DOMAIN response.channels |->
                        [id |-> response.channels[i].id, name |-> response.channels[i].name,
                         type |-> type, is_member |-> response.channels[i].is_member]]
    ELSE channels

Max(a, b) == IF a > b THEN a ELSE b

\* the channels of the result: channels.slice(0, limit), or none found
ChannelsResult(channels, limit) ==
  IF channels = <<>>
    THEN ToolResult(FALSE, "No channels found", Nil)
    ELSE ToolResult(FALSE, "Channels:",
                    [list |-> SubSeq(channels, 1, Min(limit, Len(channels)))])

\* list_user_channels up to its first listing: await db.select()...limit(1)
list_user_channels_select(p) ==
  \E workspace_id \in WorkspaceIds, private_only \in BOOLEAN :
    LET op    == "list_user_channels"
        args  == [workspace_id |-> workspace_id, limit |-> 1,
                  private_only |-> private_only]
        found == ActiveWorkspace(workspace_id)
    IN  /\ Start(p)
        /\ req' = [req EXCEPT ![p] =
              IF found = <<>>
                THEN Done(op, args, <<>>, NotFound)
                ELSE Await(op, args, IF private_only THEN "private" ELSE "public",
                           [workspace |-> found[1], channels |-> <<>>], <<>>)]
        /\ UNCHANGED <<workspaces, postedMessages, now, uuids, issued, cipher, mention>>

\* unless private_only: await slack.conversations.list({types: "public_channel"})
list_user_channels_public(p) ==
  /\ req[p].op = "list_user_channels" /\ req[p].pc = "public"
  /\ \E publicChannels \in ListResponses :
       LET r     == req[p]
           call1 == [api |-> "conversations.list", token |-> r.local.workspace.botToken,
                     types |-> "public_channel", limit |-> r.args.limit]
       IN  req' = [req EXCEPT ![p] =
                     IF IsThrown(publicChannels)
                       THEN Done(r.op, r.args, <<call1>>,
                                 Caught("Error listing channels", publicChannels.error))
                       ELSE Await(r.op, r.args, "private",
                                  [workspace |-> r.local.workspace,
                                   channels |-> Pushed(<<>>, publicChannels, "public")],
                                  <<call1>>)]
  /\ UNCHANGED <<workspaces, postedMessages, now, uuids, started, issued, cipher, mention>>

\* await slack.conversations.list({types: "private_channel"}), then the result
list_user_channels_private(p) ==
  /\ req[p].op = "list_user_channels" /\ req[p].pc = "private"
  /\ \E privateChannels \in ListResponses :
       LET r     == req[p]
           first == r.local.channels
           limit == r.args.limit
           call2 == [api |-> "conversations.list", token |-> r.local.workspace.botToken,
                     types |-> "private_channel",
                     limit |-> IF r.args.private_only THEN limit
                               ELSE Max(1, limit - Len(first))]
           calls == Append(r.calls, call2)
       IN  req' = [req EXCEPT ![p] =
                     IF IsThrown(privateChannels)
                       THEN Done(r.op, r.args, calls,
                                 Caught("Error listing channels", privateChannels.error))
                       ELSE Done(r.op, r.args, calls,
                                 ChannelsResult(Pushed(first, privateChannels, "private"),
                                                limit))]
  /\ UNCHANGED <<workspaces, postedMessages, now, uuids, started, issued, cipher, mention>>

----------------------------------------------------------------------------
(***************************************************************************)
(* Posting ledger: post_message (src/src/index.ts:361-448) and             *)
(* POST /api/post-message (src/src/index.ts:548-635).                      *)
(***************************************************************************)

\* what conversations.info answers: a response, or a thrown error
InfoResponses ==
  { Throw("channel_not_found"),
    [ok |-> FALSE, channel |-> NULL],
    [ok |-> TRUE, channel |-> "general"] }

\* what chat.postMessage answers: a response, or a thrown error
PostResponses ==
  { Throw("not_in_channel"),
    [ok |-> FALSE, ts |-> <<>>, error |-> "channel_not_found", client_msg_id |-> NULL],
    [ok |-> TRUE, ts |-> <<"9", ".", "1">>, error |-> NULL, client_msg_id |-> "m1"] }

\* what the insert into posted_messages does: the row is written, or D1 throws
InsertOutcomes == {"written", "D1_ERROR"}

MessageTexts == {"launch", ""}

PostEntries == {"post_message", "rest_post_message"}

\* the failure results of the two entry points
PostNotFound(op) ==
  IF op = "post_message" THEN NotFound
  ELSE [status |-> 404, error |-> "Workspace not found or inactive"]

PostCaught(op, message) ==
  IF op = "post_message" THEN Caught("Error posting message", message)
  ELSE [status |-> 500, error |-> "Internal server error", details |-> message]

PostFailed(op, result) ==
  IF op = "post_message" THEN ToolResult(TRUE, "Failed to post message to Slack", Nil)
  ELSE [status |-> 500, error |-> "Failed to post message to Slack",
        slack_error |-> result.error]

\* channelInfo.ok && channelInfo.channel ? channelInfo.channel.name || channel_id : channel_id
ChannelName(channelInfo, channel_id) ==
  IF channelInfo.ok /\ channelInfo.channel # NULL /\ channelInfo.channel # ""
    THEN channelInfo.channel
    ELSE channel_id

\* variant: the REST entry point does not test message_text
ValidPostArgsLax(op, a) ==
  IF op = "post_message"
    THEN a.workspace_id # "" /\ a.channel_id # "" /\ a.message_text # ""
    ELSE ~(a.workspace_id = "" \/ a.channel_id = "")

\* the arguments an entry point lets through: z.string().min(1) for each argument
\* of the tool, !workspace_id || !channel_id || !message_text in the REST handler
ValidPostArgs(op, a) ==
  IF op = "post_message"
    THEN a.workspace_id # "" /\ a.channel_id # "" /\ a.message_text # ""
    ELSE ~(a.workspace_id = "" \/ a.channel_id = "" \/ a.message_text = "")

\* the answer to arguments that are not let through
PostRejected(op) ==
  IF op = "post_message" THEN InvalidParams
  ELSE [status |-> 400,
        error |-> "Missing required fields: workspace_id, channel_id, message_text"]

\* variant: a send that failed is issued a second time
PostCallsRetried(calls, send) ==
  IF IsThrown(send.response) \/ ~send.response.ok THEN calls \o <<send, send>>
  ELSE Append(calls, send)

\* the external calls of a post once it has sent: the conversations.info it
\* made and one chat.postMessage
PostCalls(calls, send) == Append(calls, send)

\* the test of the arguments and the workspace lookup of a post:
\* await db.select()...limit(1)
PostLookup(op, args) ==
  LET found == ActiveWorkspace(args.workspace_id)
  IN  IF ~ValidPostArgs(op, args)
        THEN Done(op, args, <<>>, PostRejected(op))
      ELSE IF found = <<>>
        THEN Done(op, args, <<>>, PostNotFound(op))
      ELSE Await(op, args, "info", [workspace |-> found[1]], <<>>)

\* the arguments a caller may send to either entry point
PostArgs ==
  [workspace_id : WorkspaceIds, channel_id : ChannelIds, message_text : MessageTexts]

\* the tool up to its first call of the platform
post_message_select(p) ==
  /\ Start(p)
  /\ \E args \in PostArgs : req' = [req EXCEPT ![p] = PostLookup("post_message", args)]
  /\ UNCHANGED <<workspaces, postedMessages, now, uuids, issued, cipher, mention>>

\* POST /api/post-message up to its lookup: await c.req.json()
rest_post_message_json(p) ==
  /\ Start(p)
  /\ \E args \in PostArgs :
       req' = [req EXCEPT ![p] = Await("rest_post_message", args, "select", Nil, <<>>)]
  /\ UNCHANGED <<workspaces, postedMessages, now, uuids, issued, cipher, mention>>

\* POST /api/post-message from the parsed body to its first call of the platform
rest_post_message_select(p) ==
  /\ req[p].op = "rest_post_message" /\ req[p].pc = "select"
  /\ req' = [req EXCEPT ![p] = PostLookup(req[p].op, req[p].args)]
  /\ UNCHANGED <<workspaces, postedMessages, now, uuids, started, issued, cipher, mention>>

\* await slack.conversations.info(...) with the row the handler holds, and the
\* channel name
post_message_info(p) ==
  /\ req[p].op \in PostEntries /\ req[p].pc = "info"
  /\ \E channelInfo \in InfoResponses :
       LET r    == req[p]
           info == [api |-> "conversations.info", token |-> r.local.workspace.botToken,
                    channel |-> r.args.channel_id, response |-> channelInfo]
       IN  req' = [req EXCEPT ![p] =
                     IF IsThrown(channelInfo)
                       THEN Done(r.op, r.args, <<info>>,
                                 PostCaught(r.op, channelInfo.error))
                       ELSE Await(r.op, r.args, "send",
                                  [workspace |-> r.local.workspace,
                                   channelName |->
                                     ChannelName(channelInfo, r.args.channel_id)],
                                  <<info>>)]
  /\ UNCHANGED <<workspaces, postedMessages, now, uuids, started, issued, cipher, mention>>

\* await slack.chat.postMessage(...) and the test of its answer
post_message_send(p) ==
  /\ req[p].op \in PostEntries /\ req[p].pc = "send"
  /\ \E result \in PostResponses :
       LET r     == req[p]
           send  == [api |-> "chat.postMessage", token |-> r.local.workspace.botToken,
                     channel |-> r.args.channel_id, text |-> r.args.message_text,
                     response |-> result]
           calls == PostCalls(r.calls, send)
       IN  req' = [req EXCEPT ![p] =
                     IF IsThrown(result)
                       THEN Done(r.op, r.args, calls, PostCaught(r.op, result.error))
                     ELSE IF ~result.ok \/ result.ts = <<>>
                       THEN Done(r.op, r.args, calls, PostFailed(r.op, result))
                     ELSE Await(r.op, r.args, "insert",
                                [workspace |-> r.local.workspace,
                                 channelName |-> r.local.channelName,
                                 result |-> result],
                                calls)]
  /\ UNCHANGED <<workspaces, postedMessages, now, uuids, started, issued, cipher, mention>>

\* variant: the timestamp is read from a field the response does not have
PostedRowNoTs(a, l) ==
  [id |-> UUID(uuids + 1),
   workspaceId |-> a.workspace_id,
   channelId |-> a.channel_id,
   channelName |-> l.channelName,
   messageText |-> a.message_text,
   messageTs |-> <<>>,
   slackMessageId |-> l.result.client_msg_id,
   userId |-> l.workspace.userId,
   createdAt |-> CurrentTimestamp(now)]

\* .values({...}) of the ledger insert, with the column defaults of the schema
PostedRow(a, l) ==
  [id |-> UUID(uuids + 1),
   workspaceId |-> a.workspace_id,
   channelId |-> a.channel_id,
   channelName |-> l.channelName,
   messageText |-> a.message_text,
   messageTs |-> l.result.ts,
   slackMessageId |-> l.result.client_msg_id,
   userId |-> l.workspace.userId,
   createdAt |-> CurrentTimestamp(now)]

\* the success results of the two entry points; posted_at is the new Date() of
\* the REST response
PostSucceeded(op, a, l, postedMessage) ==
  IF op = "post_message"
    THEN ToolResult(FALSE, "Message posted successfully!",
           [channelName |-> l.channelName, message_text |-> a.message_text,
            permalink |-> Permalink(l.workspace.workspaceUrl, a.channel_id, l.result.ts),
            message_id |-> postedMessage.id])
    ELSE [status |-> 200, success |-> TRUE,
          data |-> [message_id |-> postedMessage.id, channel_name |-> l.channelName,
                    channel_id |-> a.channel_id, message_text |-> a.message_text,
                    slack_timestamp |-> l.result.ts,
                    permalink |-> Permalink(l.workspace.workspaceUrl, a.channel_id,
                                            l.result.ts),
                    posted_at |-> now]]

\* posted_messages.workspace_id references workspaces.id
ReferencesWorkspace(table, row) == \E i \in DOMAIN table : table[i].id = row.workspaceId

\* variant: the insert replaces the newest row of the table
InsertedOver(table, row) ==
  IF table = <<>> THEN <<row>> ELSE [table EXCEPT ![Len(table)] = row]

\* db.insert(schema.postedMessages).values(row): the table with the row added
Inserted(table, row) == Append(table, row)

\* await db.insert(postedMessages).values({...}).returning(); the tool then
\* returns, and so does either entry point when the insert has thrown
post_message_insert(p) ==
  /\ req[p].op \in PostEntries /\ req[p].pc = "insert"
  /\ \E outcome \in InsertOutcomes :
       LET r == req[p]
           postedMessage == PostedRow(r.args, r.local)
       IN  IF outcome = "written" /\ ReferencesWorkspace(workspaces, postedMessage)
             THEN /\ postedMessages' = Inserted(postedMessages, postedMessage)
                  /\ uuids' = uuids + 1
                  /\ req' = [req EXCEPT ![p] =
                       IF r.op = "post_message"
                         THEN Done(r.op, r.args, r.calls,
                                   PostSucceeded(r.op, r.args, r.local, postedMessage))
                         ELSE Await(r.op, r.args, "respond",
                                    [workspace |-> r.local.workspace,
                                     channelName |-> r.local.channelName,
                                     result |-> r.local.result,
                                     postedMessage |-> postedMessage],
                                    r.calls)]
             ELSE /\ req' = [req EXCEPT ![p] = Done(r.op, r.args, r.calls,
                               PostCaught(r.op, "D1_ERROR"))]
                  /\ UNCHANGED <<postedMessages, uuids>>
  /\ UNCHANGED <<workspaces, now, started, issued, cipher, mention>>

\* POST /api/post-message once the insert has returned: the response, with
\* posted_at read from the clock now
rest_post_message_respond(p) ==
  /\ req[p].op = "rest_post_message" /\ req[p].pc = "respond"
  /\ LET r == req[p]
     IN  req' = [req EXCEPT ![p] =
                   Done(r.op, r.args, r.calls,
                        PostSucceeded(r.op, r.args, r.local, r.local.postedMessage))]
  /\ UNCHANGED <<workspaces, postedMessages, now, uuids, started, issued, cipher, mention>>

----------------------------------------------------------------------------
(***************************************************************************)
(* Ledger read: get_posted_messages (src/src/index.ts:450-518).            *)
(***************************************************************************)

\* what a caller may send besides workspace_id and limit: a channel filter and a
\* page offset.  The tool's schema declares neither, so the handler never sees them.
ChannelFilters == {NULL, "C1"}

Offsets == {0, 1}

PageLimits == {1, 2}

\* variant: the lookup also verifies the stored credential with auth.test
get_posted_messages_select_verified(p) ==
  \E workspace_id \in WorkspaceIds, channel_id \in ChannelFilters,
     offset \in Offsets, limit \in PageLimits :
    LET op    == "get_posted_messages"
        args  == [workspace_id |-> workspace_id, channel_id |-> channel_id,
                  offset |-> offset, limit |-> limit]
        found == ActiveWorkspace(workspace_id)
    IN  /\ Start(p)
        /\ req' = [req EXCEPT ![p] =
              IF found = <<>>
                THEN Done(op, args, <<>>, NotFound)
                ELSE Await(op, args, "query", [workspace |-> found[1]],
                           <<[api |-> "auth.test", token |-> found[1].botToken]>>)]
        /\ UNCHANGED <<workspaces, postedMessages, now, uuids, issued, cipher, mention>>

\* the handler up to the ledger query: the workspace lookup
get_posted_messages_select(p) ==
  \E workspace_id \in WorkspaceIds, channel_id \in ChannelFilters,
     offset \in Offsets, limit \in PageLimits :
    LET op    == "get_posted_messages"
        args  == [workspace_id |-> workspace_id, channel_id |-> channel_id,
                  offset |-> offset, limit |-> limit]
        found == ActiveWorkspace(workspace_id)
    IN  /\ Start(p)
        /\ req' = [req EXCEPT ![p] =
              IF found = <<>>
                THEN Done(op, args, <<>>, NotFound)
                ELSE Await(op, args, "query", [workspace |-> found[1]], <<>>)]
        /\ UNCHANGED <<workspaces, postedMessages, now, uuids, issued, cipher, mention>>

\* the orders .orderBy(desc(createdAt)) may give the selected rows: rows of one
\* second come in an order the database chooses
NewestFirst(table, positions) ==
  { order \in [1..Cardinality(positions) -> positions] :
      /\ \A i, j \in DOMAIN order : i # j => order[i] # order[j]
      /\ \A i, j \in DOMAIN order :
           i < j => NotOlder(table[order[i]].createdAt, table[order[j]].createdAt) }

\* msg.createdAt.toISOString() throws a RangeError on an Invalid Date
ToISOStringThrows(messages) ==
  \E i \in DOMAIN messages : mapFromDriverValue(messages[i].createdAt) = InvalidDate

\* the line of one ledger row
PostedLine(msg, workspace) ==
  [channelName |-> msg.channelName, messageText |-> msg.messageText,
   posted |-> mapFromDriverValue(msg.createdAt).time,
   permalink |-> Permalink(workspace.workspaceUrl, msg.channelId, msg.messageTs)]

\* the rest of the handler: await db.select().from(postedMessages)
\*   .where(eq(workspaceId, workspace_id)).orderBy(desc(createdAt)).limit(limit),
\* then the lines of the rows, or the catch block when a line cannot be built
get_posted_messages_query(p) ==
  /\ req[p].op = "get_posted_messages" /\ req[p].pc = "query"
  /\ LET r == req[p]
         a == r.args
         mine(row) == row.workspaceId = a.workspace_id
     IN  \E order \in NewestFirst(postedMessages, {i \in DOMAIN postedMessages : mine(postedMessages[i])}) :
           LET page == SubSeq(order, 1, Min(a.limit, Len(order)))
               messages == [i \in DOMAIN page |-> postedMessages[page[i]]]
           IN  req' = [req EXCEPT ![p] =
                 IF messages = <<>>
                   THEN Done(r.op, a, r.calls, ToolResult(FALSE,
                          "No messages have been posted through this MCP server yet", Nil))
                 ELSE IF ToISOStringThrows(messages)
                   THEN Done(r.op, a, r.calls,
                             Caught("Error getting posted messages", "Invalid time value"))
                   ELSE Done(r.op, a, r.calls, ToolResult(FALSE, "Posted Messages:",
                          [list |-> [i \in DOMAIN messages |->
                                       PostedLine(messages[i], r.local.workspace)]]))]
  /\ UNCHANGED <<workspaces, postedMessages, now, uuids, started, issued, cipher, mention>>

----------------------------------------------------------------------------
\* one step of one request, or of the clock
Next ==
  \/ Tick
  \/ \E p \in Procs : configure_workspace_auth(p)
  \/ \E p \in Procs : configure_workspace_check(p)
  \/ \E p \in Procs : configure_workspace_write(p)
  \/ \E p \in Procs : list_workspaces(p)
  \/ \E p \in Procs : list_workspaces_of(p)
  \/ \E p \in Procs : get_mentions_select(p)
  \/ \E p \in Procs : get_mentions_history(p)
  \/ \E p \in Procs : list_user_channels_select(p)
  \/ \E p \in Procs : list_user_channels_public(p)
  \/ \E p \in Procs : list_user_channels_private(p)
  \/ \E p \in Procs : post_message_select(p)
  \/ \E p \in Procs : rest_post_message_json(p)
  \/ \E p \in Procs : rest_post_message_select(p)
  \/ \E p \in Procs : post_message_info(p)
  \/ \E p \in Procs : post_message_send(p)
  \/ \E p \in Procs : post_message_insert(p)
  \/ \E p \in Procs : rest_post_message_respond(p)
  \/ \E p \in Procs : get_posted_messages_select(p)
  \/ \E p \in Procs : get_posted_messages_query(p)

Spec == Init /\ [][Next]_vars

----------------------------------------------------------------------------
(***************************************************************************)
(* The mention harness: the filter of get_mentions is applied to one       *)
(* retrieved stream for one owner and one limit.                           *)
(***************************************************************************)

\* longest stream the harness filters
MaxStream == 3

\* the texts of the retrieved messages; the empty text is a message without text
StreamTexts == {<<>>, Hello, Ping, Standup, Lunch, LowerPing, Shout, Other, Near}

\* the messages conversations.history returns for the given texts, newest first
StreamOf(texts) ==
  [i \in DOMAIN texts |->
     Msg(texts[i], "U7", <<(<<"9", "8", "7", "6", "5">>)[i], ".", "1">>)]

\* a workspace row whose registered owner is the given user
OwnedBy(owner) == [GammaRow EXCEPT !.userId = owner]

MentionInit ==
  mention \in { [phase |-> "new", owner |-> owner, texts |-> texts, limit |-> limit,
                 out |-> <<>>] :
                  owner \in UserIds,
                  texts \in UNION {[1..n -> StreamTexts] : n \in 0..MaxStream},
                  limit \in 1..MaxStream }

\* history.messages.filter(...).slice(0, limit).map(...) runs
MentionFilter ==
  /\ mention.phase = "new"
  /\ mention' = [mention EXCEPT
                   !.phase = "done",
                   !.out = Mentions(StreamOf(mention.texts), OwnedBy(mention.owner),
                                    "C1", mention.limit)]
  /\ UNCHANGED <<system, cipher>>

MentionNext == MentionFilter

MentionSpecInit ==
  /\ MentionInit
  /\ workspaces = <<>> /\ postedMessages = <<>> /\ now = Epoch /\ uuids = 0
  /\ req = [p \in Procs |-> Idle] /\ started = 0 /\ issued = {}
  /\ cipher = [phase |-> "off"]

MentionSpec == MentionSpecInit /\ [][MentionNext]_vars

----------------------------------------------------------------------------
(***************************************************************************)
(* Properties.                                                             *)
(***************************************************************************)

\* a finished configure_workspace request that returned success
Registered(p) ==
  /\ req[p].pc = "done" /\ req[p].op = "configure_workspace"
  /\ ~req[p].result.isError

\* a finished configure_workspace request that returned the duplicate-key error
DuplicateKey(p) ==
  /\ req[p].pc = "done" /\ req[p].op = "configure_workspace"
  /\ req[p].result.isError
  /\ "message" \in DOMAIN req[p].result.data
  /\ req[p].result.data.message = "UNIQUE constraint failed: workspaces.team_id"

\* C1: idempotent registration.  All successful configure_workspace calls
\* whose token verifies to one team returned the same workspace id, and the
\* store holds exactly one row for that team.
C1_IdempotentRegistration ==
  /\ \A a, b \in issued : a[1] = b[1] => a[2] = b[2]
  /\ \A a \in issued :
       Cardinality({i \in DOMAIN workspaces : workspaces[i].teamId = a[1]}) = 1

\* C1 witness: two calls for one team have both succeeded, the first by the
\* insert and the second by the update, and returned the same id
C1_Witness ==
  \E p, q \in Procs :
    /\ Registered(p) /\ Registered(q)
    /\ req[p].result.text = "Workspace configured successfully!"
    /\ req[q].result.text = "Workspace updated successfully!"
    /\ req[p].result.data.id = req[q].result.data.id
    /\ req[p].args.bot_token # req[q].args.bot_token

\* C2: in every reachable state no two workspace rows carry the same team id.
C2_UniqueTeam ==
  \A i, j \in DOMAIN workspaces :
    workspaces[i].teamId = workspaces[j].teamId => i = j

\* C2 witness: two calls for one unregistered team both passed the presence
\* check; one has inserted and the other's insert was refused
C2_Witness ==
  \E p, q \in Procs :
    /\ Registered(p) /\ req[p].result.text = "Workspace configured successfully!"
    /\ DuplicateKey(q)

\* C3: when two configure_workspace calls for one unregistered team race past
\* the presence check, the call whose insert hits the duplicate key retries as
\* an update and succeeds: no caller receives a uniqueness error.
C3_NoUniquenessError == \A p \in Procs : ~DuplicateKey(p)

\* the operations that take a workspace id
WorkspaceOps ==
  {"get_mentions", "list_user_channels", "get_posted_messages"} \cup PostEntries

\* the workspace id names a row that is active
Usable(workspace_id) ==
  \E i \in DOMAIN workspaces :
    workspaces[i].id = workspace_id /\ workspaces[i].isActive

\* the workspace-not-found result of an operation
NotFoundOf(op) == IF op \in PostEntries THEN PostNotFound(op) ELSE NotFound

\* the arguments of the request pass the schema of its tool
WellFormed(r) ==
  /\ r.op = "get_mentions" => ValidMentionArgs(r.args.days_back, r.args.limit)
  /\ r.op \in PostEntries => ValidPostArgs(r.op, r.args)

\* the step is the workspace lookup of request p: the first step of a tool, and
\* the step after the body was read of POST /api/post-message
LooksUp(p) ==
  /\ req'[p] # req[p]
  /\ req'[p].op \in WorkspaceOps
  /\ IF req'[p].op = "rest_post_message"
       THEN req[p].op = "rest_post_message" /\ req[p].pc = "select"
       ELSE req[p].pc \in {"idle", "done"}

\* C4: a call of an operation that takes a workspace id, with arguments that
\* pass the tool's schema, whose lookup runs when the id names
\* no row or an inactive row, returns the workspace-not-found error, has made
\* no external call and leaves the ledger as it was.
C4_NotFound ==
  [][\A p \in Procs :
       ( /\ LooksUp(p)
         /\ WellFormed(req'[p])
         /\ ~Usable(req'[p].args.workspace_id) )
       => ( /\ req'[p].pc = "done"
            /\ req'[p].result = NotFoundOf(req'[p].op)
            /\ req'[p].calls = <<>>
            /\ postedMessages' = postedMessages )]_vars

\* C4 witness: a post against the soft-deleted row and a read against an id
\* that was never issued have both been refused
C4_Witness ==
  \E p, q \in Procs :
    /\ req[p].pc = "done" /\ req[p].op \in PostEntries
    /\ req[p].args.workspace_id = "w0"
    /\ \E i \in DOMAIN workspaces : workspaces[i].id = "w0" /\ ~workspaces[i].isActive
    /\ req[p].result = PostNotFound(req[p].op)
    /\ req[q].pc = "done" /\ req[q].op = "get_mentions"
    /\ req[q].args.workspace_id = "w9"
    /\ req[q].result = NotFound

\* C5: the credential stored in a workspace row is the cipher's encryption of
\* the raw credential of the latest successful registration; the raw
\* credential is never the stored value.
C5_StoredIsNotRaw ==
  \A p \in Procs :
    Registered(p) =>
      \A i \in DOMAIN workspaces : workspaces[i].botToken # req[p].args.bot_token

\* the fields of results that carry a character string
TextFields ==
  {"id", "teamName", "workspaceUrl", "description", "name", "url", "message", "user",
   "type", "channelName", "message_text", "message_id", "error", "details",
   "slack_error", "channel_name", "channel_id", "messageText", "base", "archives",
   "botToken", "bot_token"}

Texts(record) == {record[f] : f \in DOMAIN record \cap TextFields}

\* the character strings a result shows to its caller
Exposed(result) ==
  LET data  == IF "data" \in DOMAIN result THEN result.data ELSE Nil
      items == IF "list" \in DOMAIN data
                 THEN {data.list[i] : i \in DOMAIN data.list} ELSE {}
      links == {r.permalink : r \in {r \in items \cup {data} : "permalink" \in DOMAIN r}}
  IN  (IF "isError" \in DOMAIN result THEN {result.text} ELSE {})
        \cup Texts(result) \cup Texts(data)
        \cup UNION {Texts(e) : e \in items} \cup UNION {Texts(l) : l \in links}

\* the raw credentials and the stored values of the bot_token column
Secrets == BotTokens \cup {workspaces[i].botToken : i \in DOMAIN workspaces}

\* C6: no result returned by any operation, success or error, contains a
\* workspace's stored credential or a raw credential.
C6_NoCredentialInResult ==
  \A p \in Procs :
    req[p].pc = "done" => Exposed(req[p].result) \cap Secrets = {}

\* C6 witness: a registration has returned the row it wrote, and a listing by
\* owner has returned rows
C6_Witness ==
  \E p, q \in Procs :
    /\ Registered(p) /\ req[p].result.data.id \in {"w0", "w1"}
    /\ req[q].pc = "done" /\ req[q].op = "list_workspaces_of"
    /\ req[q].result.data.list # <<>>

\* C7: for every credential c and key k, decrypt(encrypt(c, k), k) returns c,
\* whichever nonce the encryption drew.
C7_RoundTrip ==
  /\ cipher.phase # "failed"
  /\ (cipher.phase = "opened" /\ cipher.damage = "none" /\ cipher.key2 = cipher.key)
       => cipher.out = Return(cipher.text)

\* C8: decrypt under a different key fails, and decrypt of a truncated or
\* corrupted blob fails instead of returning a string.
C8_IntegrityFailure ==
  (cipher.phase = "opened" /\ (cipher.key2 # cipher.key \/ cipher.damage # "none"))
    => IsThrown(cipher.out)

\* C9: a listing for owner U returns only rows whose owner is U and that are
\* active, and the listing without an owner returns only active rows.
C9_Isolation ==
  [][\A p \in Procs :
       /\ ( req'[p] # req[p] /\ req'[p].op = "list_workspaces_of" )
          => \A i \in DOMAIN req'[p].result.data.list :
               \E j \in DOMAIN workspaces :
                 /\ workspaces[j].id = req'[p].result.data.list[i].id
                 /\ workspaces[j].userId = req'[p].args.user_context
                 /\ workspaces[j].isActive
       /\ ( /\ req'[p] # req[p] /\ req'[p].op = "list_workspaces"
            /\ "list" \in DOMAIN req'[p].result.data )
          => \A i \in DOMAIN req'[p].result.data.list :
               \E j \in DOMAIN workspaces :
                 /\ workspaces[j].isActive
                 /\ WorkspaceLine(workspaces[j]) = req'[p].result.data.list[i]]_vars

\* C9 witness: a listing for U2 has returned a row while the store holds an
\* active row of another owner and an inactive row of U2
C9_Witness ==
  \E p \in Procs :
    /\ req[p].pc = "done" /\ req[p].op = "list_workspaces_of"
    /\ req[p].args.user_context = U2
    /\ req[p].result.data.list # <<>>
    /\ \E i, j \in DOMAIN workspaces :
         /\ workspaces[i].userId # U2 /\ workspaces[i].isActive
         /\ workspaces[j].userId = U2 /\ ~workspaces[j].isActive

\* the text in lower case
Lower(text) == [i \in DOMAIN text |-> Fold(text[i])]

\* the text contains the token
Contains(text, token) ==
  \E i \in 0..(Len(text) - Len(token)) : SubSeq(text, i + 1, i + Len(token)) = token

\* the first n elements
Take(seq, n) == SubSeq(seq, 1, Min(n, Len(seq)))

\* the texts the harness returned
OutTexts == [i \in DOMAIN mention.out |-> mention.out[i].text]

\* C10 (as stated): a message is a hit iff its text contains <@owner>,
\* <!channel> or <!here>; the hits are returned in stream order.
C10_AsStated ==
  mention.phase = "done" =>
    LET hit(text) == \/ Contains(text, MentionToken(mention.owner))
                     \/ Contains(text, ChannelToken)
                     \/ Contains(text, <<"<", "!", "h", "e", "r", "e", ">">>)
    IN  OutTexts = Take(SelectSeq(mention.texts, hit), mention.limit)

\* C10 (amended): a message is a hit iff its text contains, letter case
\* ignored, <@owner> or <!channel>; the first limit hits are returned in
\* stream order; for the stream ["hello", "<@U1> ping", "<!channel> standup"],
\* owner U1 and limit >= 2, exactly the 2nd and 3rd messages are returned.
C10_Mentions ==
  mention.phase = "done" =>
    LET hit(text) == \/ Contains(Lower(text), Lower(MentionToken(mention.owner)))
                     \/ Contains(Lower(text), ChannelToken)
    IN  /\ OutTexts = Take(SelectSeq(mention.texts, hit), mention.limit)
        /\ ( mention.texts = <<Hello, Ping, Standup>> /\ mention.owner = U1
               /\ mention.limit >= 2 )
             => OutTexts = <<Ping, Standup>>

\* C10 witness: the example stream was filtered for U1 with limit 2 and two
\* messages were returned
C10_Witness ==
  /\ mention.phase = "done"
  /\ mention.texts = <<Hello, Ping, Standup>>
  /\ mention.owner = U1 /\ mention.limit = 2
  /\ Len(mention.out) = 2

\* a finished get_mentions request that reached the history call
Retrieved(r) == r.pc = "done" /\ r.op = "get_mentions" /\ r.calls # <<>>

\* the number of hits a get_mentions result holds
Hits(result) == IF "list" \in DOMAIN result.data THEN Len(result.data.list) ELSE 0

\* C11: when a page of history comes back with a next cursor and fewer than
\* limit hits have been found, get_mentions requests the next page with that
\* cursor.
C11_FollowsCursors ==
  \A p \in Procs :
    ( /\ Retrieved(req[p])
      /\ ~IsThrown(req[p].calls[1].response)
      /\ req[p].calls[1].response.next_cursor # ""
      /\ Hits(req[p].result) < req[p].args.limit )
    => ( /\ Len(req[p].calls) >= 2
         /\ req[p].calls[2].cursor = req[p].calls[1].response.next_cursor )

\* C12: the hits returned are the first min(limit, number of matching
\* messages) matching messages of the retrieved stream, in the order of the
\* stream, and never more than limit.
C12_FirstHits ==
  mention.phase = "done" =>
    LET stream == StreamOf(mention.texts)
        idx    == {i \in DOMAIN stream : IsMention(stream[i], mention.owner)}
        nth(k) == CHOOSE i \in idx : Cardinality({j \in idx : j < i}) = k - 1
    IN  /\ Len(mention.out) = Min(mention.limit, Cardinality(idx))
        /\ Len(mention.out) <= mention.limit
        /\ \A k \in DOMAIN mention.out :
             /\ mention.out[k].text = stream[nth(k)].text
             /\ mention.out[k].timestamp.isoOf = stream[nth(k)].ts

\* C12 witness: three messages of the stream match, the limit is 2 and the
\* first two were returned
C12_Witness ==
  /\ mention.phase = "done"
  /\ mention.owner = U1 /\ mention.limit = 2
  /\ Len(mention.out) = 2
  /\ mention.texts = <<Ping, Standup, Shout>>

\* C13: the lower bound a search computes before it calls the platform is
\* now - days_back days, in whole seconds; the history request carries that
\* bound, and every hit returned has a timestamp not older than it.
C13_TimeBound ==
  [][\A p \in Procs :
       /\ ( /\ req'[p] # req[p] /\ req'[p].op = "get_mentions"
            /\ req'[p].pc = "history" )
          => req'[p].local.oldestTimestamp
               = now - req'[p].args.days_back * 24 * 60 * 60
       /\ ( req'[p] # req[p] /\ Retrieved(req'[p]) )
          => LET r     == req'[p]
                 bound == req[p].local.oldestTimestamp
             IN  /\ r.calls[1].oldest = bound
                 /\ \A i \in 1..Hits(r.result) :
                      Seconds(r.result.data.list[i].timestamp.isoOf) >= bound]_vars

\* C13 witness: hits were returned from a channel that also holds a matching
\* message older than the bound
C13_Witness ==
  \E p \in Procs :
    /\ Retrieved(req[p])
    /\ ~IsThrown(req[p].calls[1].response)
    /\ req[p].calls[1].response.ok
    /\ "messages" \in DOMAIN req[p].calls[1].response
    /\ req[p].calls[1].response.messages = ExampleStream
    /\ Hits(req[p].result) > 0
    /\ Seconds(Stale.ts) < req[p].calls[1].oldest

\* C14: get_mentions returns a non-error result with zero hits when the
\* retrieval succeeds and no message matches the owner of the row the search
\* resolved (or the channel), the empty stream included, and
\* an error result when the retrieval throws or reports a non-ok status.
C14_ZeroHitsOrError ==
  [][\A p \in Procs :
       ( req'[p] # req[p] /\ Retrieved(req'[p]) )
       => LET r     == req'[p]
              resp  == r.calls[1].response
              owner == req[p].local.workspace.userId
              hit(msg) == \/ Contains(Lower(msg.text), Lower(MentionToken(owner)))
                          \/ Contains(Lower(msg.text), ChannelToken)
          IN  /\ (IsThrown(resp) \/ ~resp.ok) => r.result.isError
              /\ ( /\ ~IsThrown(resp) /\ resp.ok /\ "messages" \in DOMAIN resp
                   /\ \A i \in DOMAIN resp.messages : ~hit(resp.messages[i]) )
                 => (~r.result.isError /\ Hits(r.result) = 0)]_vars

\* C14 witness: a retrieval returned messages of which none matches, and the
\* result is the non-error result without hits
C14_Witness ==
  \E p \in Procs :
    /\ Retrieved(req[p])
    /\ ~IsThrown(req[p].calls[1].response)
    /\ req[p].calls[1].response.ok
    /\ "messages" \in DOMAIN req[p].calls[1].response
    /\ req[p].calls[1].response.messages # <<>>
    /\ req[p].result =
         ToolResult(FALSE, "No mentions or channel notifications found", Nil)

\* C15: a get_mentions call with days_back outside 1..365 or limit outside
\* 1..100 is rejected: no workspace result, no external call, no change of the
\* store.
C15_RejectedEarly ==
  [][\A p \in Procs :
       ( /\ req'[p] # req[p] /\ req'[p].op = "get_mentions"
         /\ ~( /\ req'[p].args.days_back \in 1..365
               /\ req'[p].args.limit \in 1..100 ) )
       => ( /\ req'[p].pc = "done"
            /\ req'[p].result = InvalidParams
            /\ req'[p].calls = <<>>
            /\ workspaces' = workspaces /\ postedMessages' = postedMessages
            /\ uuids' = uuids /\ issued' = issued )]_vars

\* C15 witness: calls with days_back = 366 and with limit = 0 against an
\* active workspace have been rejected
C15_Witness ==
  \E p, q \in Procs :
    /\ req[p].pc = "done" /\ req[p].op = "get_mentions"
    /\ req[p].args.days_back = 366 /\ req[p].args.limit = 1
    /\ req[q].pc = "done" /\ req[q].op = "get_mentions"
    /\ req[q].args.days_back = 1 /\ req[q].args.limit = 0
    /\ Usable(req[p].args.workspace_id) /\ Usable(req[q].args.workspace_id)
    /\ req[p].result = InvalidParams /\ req[q].result = InvalidParams

\* a post request whose send returned a confirmed success
SendConfirmed(r) ==
  /\ Len(r.calls) = 2
  /\ ~IsThrown(r.calls[2].response)
  /\ r.calls[2].response.ok
  /\ r.calls[2].response.ts # <<>>

\* a finished post request that returned success
PostOk(r) ==
  /\ r.pc = "done" /\ r.op \in PostEntries
  /\ "rpcError" \notin DOMAIN r.result
  /\ IF "isError" \in DOMAIN r.result THEN ~r.result.isError ELSE r.result.status = 200

\* C16: a ledger row is inserted only by a post whose send has returned ok
\* with a timestamp; the step inserts one row, and the row carries that
\* timestamp and message id and the requested workspace, channel and text.
C16_InsertAfterSend ==
  [][postedMessages' # postedMessages =>
       \E p \in Procs :
         /\ req[p].op \in PostEntries /\ req[p].pc = "insert"
         /\ req'[p].pc \in {"respond", "done"}
         /\ SendConfirmed(req[p])
         /\ req[p].calls[2].api = "chat.postMessage"
         /\ req[p].calls[2].channel = req[p].args.channel_id
         /\ req[p].calls[2].text = req[p].args.message_text
         /\ Len(postedMessages') = Len(postedMessages) + 1
         /\ LET row  == postedMessages'[Len(postedMessages')]
                sent == req[p].calls[2].response
            IN  /\ row.messageTs = sent.ts
                /\ row.slackMessageId = sent.client_msg_id
                /\ row.workspaceId = req[p].args.workspace_id
                /\ row.channelId = req[p].args.channel_id
                /\ row.messageText = req[p].args.message_text]_vars

\* C16 witness: a post has succeeded and the ledger holds its row with the
\* platform's timestamp
C16_Witness ==
  \E p \in Procs :
    /\ PostOk(req[p])
    /\ \E i \in DOMAIN postedMessages :
         /\ postedMessages[i].id = req[p].result.data.message_id
         /\ postedMessages[i].messageTs = req[p].calls[2].response.ts

\* what a result tells apart from its free-text detail
Kind(result) ==
  IF "rpcError" \in DOMAIN result THEN result
  ELSE IF "isError" \in DOMAIN result
    THEN [isError |-> result.isError, text |-> result.text]
    ELSE [status |-> result.status,
          error |-> IF "error" \in DOMAIN result THEN result.error ELSE NULL]

\* C17: when the send succeeded and the ledger insert failed, the result is
\* of a kind that no result of a post that sent no message has.
C17_ConsistencyWarning ==
  \A p, q \in Procs :
    ( /\ req[p].pc = "done" /\ req[p].op \in PostEntries
      /\ SendConfirmed(req[p]) /\ ~PostOk(req[p])
      /\ req[q].pc = "done" /\ req[q].op = req[p].op
      /\ ~SendConfirmed(req[q]) )
    => Kind(req[p].result) # Kind(req[q].result)

\* the channel lookup did not deliver a channel
LookupFailed(response) ==
  \/ IsThrown(response)
  \/ ~response.ok
  \/ response.channel = NULL

\* C18: when the channel lookup fails (not ok, no channel, or a thrown
\* error), the message is still sent, and a row written for it carries the
\* channel id as the channel name.
C18_LookupNeverAborts ==
  \A p \in Procs :
    ( /\ req[p].op \in PostEntries /\ req[p].pc \in {"insert", "respond", "done"}
      /\ req[p].calls # <<>>
      /\ LookupFailed(req[p].calls[1].response) )
    => ( /\ Len(req[p].calls) = 2
         /\ req[p].calls[2].api = "chat.postMessage"
         /\ PostOk(req[p]) =>
              \E i \in DOMAIN postedMessages :
                /\ postedMessages[i].id = req[p].result.data.message_id
                /\ postedMessages[i].channelName = req[p].args.channel_id )

\* C19: when the platform reports a failed send, the result of the post, on
\* the tool and on the REST entry point, carries the platform's error code.
C19_DeliveryErrorCode ==
  \A p \in Procs :
    ( /\ req[p].pc = "done" /\ req[p].op \in PostEntries
      /\ Len(req[p].calls) = 2
      /\ ~IsThrown(req[p].calls[2].response)
      /\ ~req[p].calls[2].response.ok )
    => req[p].calls[2].response.error \in Exposed(req[p].result)

\* C20: the ledger is append-only: every step keeps every row that was
\* present, at its place and with every field unchanged.
C20_AppendOnly ==
  [][\A i \in DOMAIN postedMessages :
       /\ i \in DOMAIN postedMessages'
       /\ postedMessages'[i] = postedMessages[i]]_vars

\* C20 witness: a post has added a row behind the rows the ledger held
C20_Witness ==
  /\ Len(postedMessages) = Len(SeedPosted) + 1
  /\ SubSeq(postedMessages, 1, Len(SeedPosted)) = SeedPosted
  /\ postedMessages[Len(postedMessages)].createdAt.at >= Epoch

----------------------------------------------------------------------------
(***************************************************************************)
(* The ledger read.                                                        *)
(***************************************************************************)

\* the positions of the ledger rows that match every filter key of a call
Matching(a) ==
  {i \in DOMAIN postedMessages :
     /\ postedMessages[i].workspaceId = a.workspace_id
     /\ a.channel_id # NULL => postedMessages[i].channelId = a.channel_id}

\* the lines a result of get_posted_messages lists
Listed(result) == IF "list" \in DOMAIN result.data THEN result.data.list ELSE <<>>

\* what a line shows of its row, and a row of itself
Shown(line) == [channelName |-> line.channelName, messageText |-> line.messageText]

\* C21: get_posted_messages returns exactly the ledger rows that match every
\* supplied filter key (workspace, channel), newest first, restricted to
\* positions offset+1 .. offset+limit of that sequence.
C21_ListPosted ==
  [][\A p \in Procs :
       ( /\ req[p].op = "get_posted_messages" /\ req[p].pc = "query"
         /\ req'[p].pc = "done" )
       => \E order \in NewestFirst(postedMessages, Matching(req[p].args)) :
            LET a    == req[p].args
                page == SubSeq(order, a.offset + 1, Min(a.offset + a.limit, Len(order)))
                out  == Listed(req'[p].result)
            IN  [i \in DOMAIN out |-> Shown(out[i])] =
                  [i \in DOMAIN page |-> Shown(postedMessages[page[i]])]]_vars

\* C22: get_posted_messages is a pure query: no step of it changes a workspace
\* row or a ledger row or draws an identifier, and it makes no external call,
\* whatever its arguments and its outcome.
C22_PureQuery ==
  [][\A p \in Procs :
       ( req'[p] # req[p] /\ req'[p].op = "get_posted_messages" )
       => /\ workspaces' = workspaces
          /\ postedMessages' = postedMessages
          /\ uuids' = uuids
          /\ req'[p].calls = <<>>]_vars

\* C22 witness: one query has read rows of the ledger and ended in its catch
\* block, another has ended with the not-found result, and the stores are as
\* they started
C22_Witness ==
  \E p, q \in Procs :
    /\ req[p].pc = "done" /\ req[p].op = "get_posted_messages"
    /\ req[p].args.workspace_id = "w8"
    /\ req[p].result = Caught("Error getting posted messages", "Invalid time value")
    /\ req[q].pc = "done" /\ req[q].op = "get_posted_messages"
    /\ req[q].result = NotFound
    /\ workspaces = <<SeedRow, GammaRow, DeltaRow>> /\ postedMessages = SeedPosted

----------------------------------------------------------------------------
(***************************************************************************)
(* Registration: its update branch, its rejections and its frame.          *)
(***************************************************************************)

\* request p is about to run the write of a registration for a team that has a row
ReRegisters(p) ==
  /\ req[p].op = "configure_workspace" /\ req[p].pc = "write"
  /\ \E i \in DOMAIN workspaces :
       workspaces[i].teamId = req[p].calls[1].response.team_id

\* C23: after a successful registration for a team that already has a row,
\* the row is active (also when it was inactive before) and its name, URL,
\* credential, owner, bot identifier and description are those of this call
\* (no description is stored as null), and updatedAt is a Date this call took
\* from the clock, no longer the default the row was created with.
C23_UpdateSetsFields ==
  [][\A p \in Procs :
       ( ReRegisters(p) /\ req'[p].pc = "done" /\ ~req'[p].result.isError )
       => \A i \in DOMAIN workspaces :
            workspaces[i].teamId = req[p].calls[1].response.team_id
            => LET row == workspaces'[i]
                   a   == req[p].args
                   v   == req[p].calls[1].response
               IN  /\ row.isActive
                   /\ row.teamName = v.team
                   /\ row.workspaceUrl = v.url
                   /\ row.botToken = a.bot_token
                   /\ row.userId = a.user_id
                   /\ row.botId = v.user_id
                   /\ row.description = a.description
                   /\ row.updatedAt = mapToDriverValue(req[p].local.updatedAt)
                   /\ req[p].local.updatedAt \in Epoch..now]_vars

\* C23 witness: the inactive row of team T2 was registered again by another
\* owner, and is now active with that owner and the new credential
C23_Witness ==
  \E p \in Procs :
    /\ Registered(p)
    /\ req[p].result.text = "Workspace updated successfully!"
    /\ req[p].args.bot_token = "xoxb-B1" /\ req[p].args.user_id = U1
    /\ \E i \in DOMAIN workspaces :
         /\ workspaces[i].id = SeedRow.id /\ workspaces[i].isActive
         /\ workspaces[i].userId = U1 /\ workspaces[i].botToken = "xoxb-B1"

\* the verification response reports failure or lacks a required field
Lacking(v) ==
  \/ v.ok = FALSE
  \/ v.team = "" \/ v.team_id = "" \/ v.url = "" \/ v.user_id = <<>>

\* the invalid-credential result of configure_workspace
InvalidCredential ==
  ToolResult(TRUE, "Invalid bot token or missing workspace information", Nil)

\* C24: when auth.test returns a response that reports failure or lacks the
\* team id, team name, URL or bot identifier, configure_workspace returns the
\* invalid-credential error at once and the workspace table is unchanged.
C24_InvalidCredential ==
  [][\A p \in Procs :
       ( /\ req'[p] # req[p] /\ req[p].pc \in {"idle", "done"}
         /\ req'[p].op = "configure_workspace"
         /\ ~IsThrown(req'[p].calls[1].response)
         /\ Lacking(req'[p].calls[1].response) )
       => /\ req'[p].pc = "done"
          /\ req'[p].result = InvalidCredential
          /\ workspaces' = workspaces]_vars

\* C24 witness: team T1 has a row; a later call whose response for that team
\* lacks the URL was rejected, and the row still holds the first call's values
C24_Witness ==
  \E p, q \in Procs :
    /\ Registered(p) /\ req[p].calls[1].response.team_id = "T1"
    /\ req[q].pc = "done" /\ req[q].op = "configure_workspace"
    /\ req[q].result = InvalidCredential
    /\ req[q].calls[1].response.ok /\ req[q].calls[1].response.url = ""
    /\ req[q].calls[1].response.team_id = "T1"
    /\ \E i \in DOMAIN workspaces :
         /\ workspaces[i].teamId = "T1"
         /\ workspaces[i].botToken = req[p].args.bot_token
         /\ workspaces[i].workspaceUrl = req[p].calls[1].response.url

----------------------------------------------------------------------------
(***************************************************************************)
(* References of the ledger, and whose mentions are searched.              *)
(***************************************************************************)

\* every ledger row's workspace_id is the id of exactly one workspace row
ReferencesOne ==
  \A i \in DOMAIN postedMessages :
    Cardinality({j \in DOMAIN workspaces :
                   workspaces[j].id = postedMessages[i].workspaceId}) = 1

\* C25: in every state each ledger row's workspace reference is the id of
\* exactly one workspace row; a post goes on to its send only for an id whose
\* row is active at the lookup, and the row it inserts carries that id.
C25_RowsReferenceWorkspace ==
  /\ []ReferencesOne
  /\ [][\A p \in Procs :
          /\ ( LooksUp(p) /\ req'[p].op \in PostEntries /\ req'[p].pc = "info" )
             => Usable(req'[p].args.workspace_id)
          /\ ( /\ req[p].op \in PostEntries /\ req[p].pc = "insert"
               /\ postedMessages' # postedMessages )
             => postedMessages'[Len(postedMessages')].workspaceId
                  = req[p].args.workspace_id]_vars

\* C25 witness: a post to workspace w8 has succeeded; its row refers to w8,
\* which is one row of the table, next to the rows of the other workspaces
C25_Witness ==
  \E p \in Procs :
    /\ PostOk(req[p]) /\ req[p].args.workspace_id = DeltaRow.id
    /\ Len(postedMessages) = Len(SeedPosted) + 1
    /\ postedMessages[Len(postedMessages)].workspaceId = DeltaRow.id
    /\ Len(workspaces) = 3
    /\ Cardinality({j \in DOMAIN workspaces : workspaces[j].id = DeltaRow.id}) = 1

\* the text is a mention of the user, or a channel notification
MentionsUser(text, userId) ==
  \/ Contains(Lower(text), Lower(MentionToken(userId)))
  \/ Contains(Lower(text), ChannelToken)

\* C26: the owner and the bot are kept apart.  A successful registration
\* stores the caller's user_id as the row's owner and the subject of the
\* verification response as its bot identifier; every hit of get_mentions
\* mentions the owner of the row the search resolved (or the channel), never
\* only the bot.
C26_OwnerIsNotBot ==
  [][\A p \in Procs :
       /\ ( /\ req[p].op = "configure_workspace" /\ req[p].pc = "write"
            /\ req'[p].pc = "done" /\ ~req'[p].result.isError )
          => \A i \in DOMAIN workspaces' :
               workspaces'[i].teamId = req[p].calls[1].response.team_id
               => /\ workspaces'[i].userId = req[p].args.user_id
                  /\ workspaces'[i].botId = req[p].calls[1].response.user_id
       /\ ( req'[p] # req[p] /\ Retrieved(req'[p]) )
          => LET out == Listed(req'[p].result)
             IN  \A k \in DOMAIN out :
                   MentionsUser(out[k].text, req[p].local.workspace.userId)]_vars

\* C26 witness: a registration stored an owner other than the bot, and a
\* search of a stream that mentions the bot returned the owner's mention only
C26_Witness ==
  \E p, q \in Procs :
    /\ Registered(p)
    /\ \E i \in DOMAIN workspaces :
         /\ workspaces[i].id = req[p].result.data.id
         /\ workspaces[i].userId = req[p].args.user_id
         /\ workspaces[i].botId = UBOT /\ workspaces[i].userId # UBOT
    /\ Retrieved(req[q]) /\ ~IsThrown(req[q].calls[1].response)
    /\ "messages" \in DOMAIN req[q].calls[1].response
    /\ \E k \in DOMAIN req[q].calls[1].response.messages :
         req[q].calls[1].response.messages[k].text = BotPing
    /\ Len(Listed(req[q].result)) = 1
    /\ Listed(req[q].result)[1].text = Other

----------------------------------------------------------------------------
(***************************************************************************)
(* External calls per request, and the two entry points of a post.         *)
(***************************************************************************)

\* how often a request has called one method of the platform
Count(calls, api) == Cardinality({i \in DOMAIN calls : calls[i].api = api})

\* C27: no request retries an external call: within one request each of
\* auth.test, conversations.history, conversations.info and chat.postMessage
\* is called at most once, whatever it answered.
C27_NoRetry ==
  \A p \in Procs :
    \A api \in {"auth.test", "conversations.history", "conversations.info",
                "chat.postMessage"} :
      Count(req[p].calls, api) <= 1

\* C27 witness: a post whose send the platform refused has ended after one
\* send, and a search whose retrieval threw has ended after one retrieval
C27_Witness ==
  \E p, q \in Procs :
    /\ req[p].pc = "done" /\ req[p].op \in PostEntries
    /\ Len(req[p].calls) = 2 /\ ~IsThrown(req[p].calls[2].response)
    /\ ~req[p].calls[2].response.ok
    /\ Count(req[p].calls, "chat.postMessage") = 1
    /\ Retrieved(req[q]) /\ IsThrown(req[q].calls[1].response)
    /\ Count(req[q].calls, "conversations.history") = 1

\* the ledger insert of a finished post failed
InsertFailed(r) == SendConfirmed(r) /\ "D1_ERROR" \in Exposed(r.result)

\* the platform gave two requests the same answers to the calls both made
SameResponses(r, t) ==
  \A i \in DOMAIN r.calls \cap DOMAIN t.calls : r.calls[i].response = t.calls[i].response

\* the ledger row a successful post names in its result
RowOf(r) ==
  postedMessages[CHOOSE i \in DOMAIN postedMessages :
                   postedMessages[i].id = r.result.data.message_id]

\* what a ledger row records of a post
Recorded(row) == [row EXCEPT !.id = NULL, !.createdAt = 0]

\* C28: the post_message tool and POST /api/post-message are equivalent.  For
\* the same workspace table, the same arguments, the same answers of the
\* platform and the same outcome of the insert, they make the same external
\* calls, one succeeds exactly when the other does, and the rows they leave
\* agree in every column but id and createdAt.
C28_EntryPointsAgree ==
  \A p, q \in Procs :
    ( /\ req[p].pc = "done" /\ req[p].op = "post_message"
      /\ req[q].pc = "done" /\ req[q].op = "rest_post_message"
      /\ issued = {}
      /\ req[p].args = req[q].args
      /\ SameResponses(req[p], req[q])
      /\ InsertFailed(req[p]) <=> InsertFailed(req[q]) )
    => /\ req[p].calls = req[q].calls
       /\ PostOk(req[p]) <=> PostOk(req[q])
       /\ PostOk(req[p]) => Recorded(RowOf(req[p])) = Recorded(RowOf(req[q]))

\* C28 witness: the same post has succeeded through both entry points and
\* the ledger holds a row for each
C28_Witness ==
  \E p, q \in Procs :
    /\ PostOk(req[p]) /\ req[p].op = "post_message"
    /\ PostOk(req[q]) /\ req[q].op = "rest_post_message"
    /\ issued = {}
    /\ req[p].args = req[q].args /\ req[p].calls = req[q].calls
    /\ Len(postedMessages) = Len(SeedPosted) + 2
    /\ RowOf(req[p]).id # RowOf(req[q]).id

----------------------------------------------------------------------------
(***************************************************************************)
(* What a registration leaves alone, and the life of a workspace id.       *)
(***************************************************************************)

\* C29: a registration for a team that already has a row changes that row
\* only: its id, team id and createdAt stay, every other workspace row stays
\* as it is, no row is added, and the ledger stays as it is.
C29_ReRegistrationFrame ==
  [][\A p \in Procs :
       ( ReRegisters(p) /\ req'[p].pc = "done" )
       => /\ DOMAIN workspaces' = DOMAIN workspaces
          /\ \A i \in DOMAIN workspaces :
               IF workspaces[i].teamId = req[p].calls[1].response.team_id
                 THEN /\ workspaces'[i].id = workspaces[i].id
                      /\ workspaces'[i].teamId = workspaces[i].teamId
                      /\ workspaces'[i].createdAt = workspaces[i].createdAt
                 ELSE workspaces'[i] = workspaces[i]
          /\ postedMessages' = postedMessages]_vars

\* C29 witness: team T2 was registered again; its row has the new owner and
\* the old id, the two other rows and the ledger, with the row that refers to
\* this workspace, are as they were
C29_Witness ==
  \E p \in Procs :
    /\ Registered(p) /\ req[p].result.data.id = SeedRow.id
    /\ req[p].args.user_id = U1
    /\ Len(workspaces) = 3
    /\ workspaces[1].id = SeedRow.id /\ workspaces[1].userId = U1
    /\ workspaces[1].createdAt = SeedRow.createdAt
    /\ workspaces[2] = GammaRow /\ workspaces[3] = DeltaRow
    /\ postedMessages = SeedPosted
    /\ \E i \in DOMAIN postedMessages : postedMessages[i].workspaceId = SeedRow.id

\* the workspace ids that configure_workspace has returned
IssuedIds == {e[2] : e \in issued}

\* C30: no step removes a workspace row, changes its id or makes an active
\* row inactive; and a lookup of an id that configure_workspace has returned,
\* by get_mentions, list_user_channels, post_message, POST /api/post-message
\* or get_posted_messages, never ends with the not-found result.
C30_IssuedIdsResolve ==
  [][/\ \A i \in DOMAIN workspaces :
          /\ i \in DOMAIN workspaces'
          /\ workspaces'[i].id = workspaces[i].id
          /\ workspaces[i].isActive => workspaces'[i].isActive
     /\ \A p \in Procs :
          ( LooksUp(p) /\ req'[p].args.workspace_id \in IssuedIds )
          => ~(req'[p].pc = "done" /\ req'[p].result = NotFoundOf(req'[p].op))]_vars

\* C30 witness: the id of a new workspace and the id of the workspace that
\* had been inactive were returned by registrations, and a later lookup of
\* an issued id went on to call the platform
C30_Witness ==
  \E p, q \in Procs :
    /\ Registered(p) /\ req[p].result.data.id \in {UUID(1), SeedRow.id}
    /\ req[q].op \in WorkspaceOps /\ req[q].pc = "done"
    /\ req[q].args.workspace_id = req[p].result.data.id
    /\ req[q].args.workspace_id \in IssuedIds
    /\ req[q].calls # <<>>

====
